---- MODULE Spec2Model ----
(***************************************************************************)
(* A model of the replicated key-value store: the KVStore of store/kv.go   *)
(* (in-memory map, WAL, bbolt bucket, watch registry, raft handle), the    *)
(* gRPC handlers of server/main.go that call it, and the part of the raft  *)
(* library's behaviour the store relies on (leadership, the committed log, *)
(* the FSM callbacks).                                                     *)
(*                                                                         *)
(* Every node runs the server's main(): it opens the bucket, opens raft,   *)
(* rehydrates the map from the bucket and then serves requests.  Request   *)
(* handlers run concurrently; a Put or a Delete is a sequence of steps     *)
(* taken while holding kv.mu, a Watch or an Unwatch a read of the registry *)
(* entry followed by a write of it while holding only the read lock.       *)
(***************************************************************************)
EXTENDS Integers, Sequences, FiniteSets, TLC

\* The nodes that run the server, and the request handlers of a node that
\* serve Put and Delete concurrently.
Nodes == {1, 2}
Threads == {1, 2}

\* Keys and values of the requests.  The empty key is a key like the others
\* for the map and the WAL; the bucket rejects it.
Keys == {"", "a"}
Values == {"1", "2"}

\* The watch streams opened over a run.
WatcherIds == {1, 2}
\* Put and Delete requests served over a run, all nodes together.
MaxOps == 3
\* Process stops (crash or kill) over a run, all nodes together.
MaxCrashes == 1
\* Configuration changes and elections over a run.
MaxElections == 2

\* make(chan string, 10)
ChanCap == 10

VARIABLES
    status,       \* node -> "down" | "starting" (main() before srv.Serve) |
                  \*         "fresh" (srv.Serve called, nothing served yet) | "serving"
    store,        \* node -> kv.store, the in-memory map
    db,           \* node -> the bbolt bucket (on disk)
    wal,          \* node -> walog.ndjson, a sequence of records (on disk)
    snapshots,    \* node -> the latest raft snapshot of the node's FSM (on disk)
    ndjson,       \* one WAL record on its way through the file: the record
                  \* handed to appendLogToFile, the line written, the entry read
    watchers,     \* node -> kv.watchers: key -> sequence of watcher ids
    pc,           \* node -> thread -> position of the Put/Delete handler
    cur,          \* node -> thread -> the request being served and its raft future
    resp,         \* node -> the last answer the node gave to a caller
    raftState,    \* node -> "Follower" | "Leader" | "None" (kv.raft is nil: Open
                  \*         has not run)
    config,       \* node -> the raft configuration's voters (on disk)
    rlog,         \* node -> the committed raft log the node holds (on disk)
    lastApplied,  \* node -> index of the last entry handed to fsm.Apply
    elections,    \* elections and configuration changes so far
    wpc,          \* watcher -> position of its Watch stream handler
    wnode,        \* watcher -> the node that serves the stream
    wkey,         \* watcher -> KVWatcher.Key
    wtmp,         \* watcher -> the registry entry its Watch/Unwatch has read
    events,       \* watcher -> KVWatcher.Events, the channel's buffer
    returned,     \* node -> the Put/Delete calls that returned to their callers
    crashes       \* process stops so far

vars == <<status, store, db, wal, snapshots, ndjson, watchers, pc, cur, resp, raftState, config,
          rlog, lastApplied, elections, wpc, wnode, wkey, wtmp, events,
          returned, crashes>>

nodeVars == <<status, crashes>>
diskVars == <<db, wal, snapshots, ndjson>>
raftVars == <<raftState, config, rlog, lastApplied, elections>>
watchVars == <<wpc, wnode, wkey, wtmp, events>>

----------------------------------------------------------------------------
\* Go maps: functions whose domain is the set of keys present.

EmptyMap == [x \in {} |-> ""]

Upsert(m, k, v) == [x \in (DOMAIN m) \cup {k} |-> IF x = k THEN v ELSE m[x]]

Remove(m, k) == [x \in (DOMAIN m) \ {k} |-> m[x]]

\* The error values the store and its callers see.
ErrNil == "nil"
ErrNotLeader == "ErrNotLeader"
ErrLeadershipLost == "ErrLeadershipLost"

NoRequest == [op |-> "none", key |-> "", value |-> "", index |-> 0, err |-> ErrNil]
NoResponse == [op |-> "none", key |-> "", success |-> FALSE, err |-> ErrNil]

Up(n) == status[n] # "down"

Serving(n) == status'  = [status EXCEPT ![n] = "serving"]
\* srv.Serve(lis) has been called: the handlers of node n take requests
Listening(n) == status[n] \in {"fresh", "serving"}

----------------------------------------------------------------------------
\* kv.mu.  A Put or Delete handler holds the write lock from its first step
\* to its return (defer kv.mu.Unlock()); a Watch or Unwatch holds the read
\* lock between its read and its write of the registry entry.

\* a handler between kv.mu.Lock() and its return; a GetAll handler that is
\* serializing its response has released the lock it read under
WriteLocked(n) == \E t \in Threads : pc[n][t] \notin {"idle", "getall_marshal"}

ReadLocked(n) ==
    \E w \in WatcherIds :
        /\ wnode[w] = n
        /\ wpc[w] \in {"watch_append", "unwatch_remove", "unwatch_both",
                       "unwatch_again_open", "unwatch_again_closed"}

\* kv.mu.Lock() returns
CanLock(n) == ~WriteLocked(n) /\ ~ReadLocked(n)

\* kv.mu.RLock() returns
CanRLock(n) == ~WriteLocked(n)

----------------------------------------------------------------------------
\* The WAL (store/wal.go).

WalLog(operation, key, value) ==
    [Operation |-> operation, Key |-> key, Value |-> value]

\* appendLogToFile as it would be with the file opened O_TRUNC
appendLogTruncates(file, wallog) == <<wallog>>

\* appendLogToFile: O_APPEND write of one record
appendLogToFile(file, wallog) == Append(file, wallog)

LogWrite(file, key, value) == appendLogToFile(file, WalLog("Write", key, value))

LogDelete(file, key) == appendLogToFile(file, WalLog("Delete", key, ""))

\* The bbolt bucket.  Bucket.Put refuses an empty key (ErrKeyRequired), the
\* transaction rolls back and db.Update returns the error, which the store
\* drops; Bucket.Delete of any key succeeds.
BucketPut(b, key, value) == IF key = "" THEN b ELSE Upsert(b, key, value)

\* what db.Update returns for b.Put(key, value)
BucketPutError(key) == IF key = "" THEN "ErrKeyRequired" ELSE ErrNil

BucketDelete(b, key) == Remove(b, key)

\* fmt.Sprintf("Key %s updated to %s", key, value)
Sprintf(key, value) == "Key " \o key \o " updated to " \o value

\* select { case w.Events <- msg: default: }: a send that never waits
Send(buffer, msg) == IF Len(buffer) < ChanCap THEN Append(buffer, msg) ELSE buffer

\* The watchers a Put on key delivers to: kv.watchers[key], in order.
Range(seq) == {seq[i] : i \in 1..Len(seq)}

\* Notify as it would be if it delivered to the watchers of every key
NotifyEveryKey(n, key, value) ==
    [w \in WatcherIds |->
        IF \E k \in Keys : w \in Range(watchers[n][k])
        THEN Send(events[w], Sprintf(key, value))
        ELSE events[w]]

Notify(n, key, value) ==
    [w \in WatcherIds |->
        IF w \in Range(watchers[n][key])
        THEN Send(events[w], Sprintf(key, value))
        ELSE events[w]]

\* KVStore.Get
Get(n, key) == IF key \in DOMAIN store[n] THEN store[n][key] ELSE ""

\* KVStore.GetAll
GetAll(n) == store[n]

----------------------------------------------------------------------------
\* Requests served so far: one WAL record each, plus those about to write it.

RECURSIVE SumLen(_, _)
SumLen(f, S) ==
    IF S = {} THEN 0
    ELSE LET x == CHOOSE y \in S : TRUE IN Len(f[x]) + SumLen(f, S \ {x})

Starting ==
    Cardinality({<<n, t>> \in Nodes \X Threads : pc[n][t] \in {"put_log", "del_log"}})

OpsStarted == SumLen(wal, Nodes) + Starting

SetPc(n, t, p) == pc' = [pc EXCEPT ![n][t] = p]

\* NewKVStore
NewKVStore == [store |-> EmptyMap, watchers |-> [k \in Keys |-> <<>>]]

\* the process stops: memory, handlers and streams are gone, the files stay
Stop(n) ==
    /\ status' = [status EXCEPT ![n] = "down"]
    /\ store' = [store EXCEPT ![n] = NewKVStore.store]
    /\ watchers' = [watchers EXCEPT ![n] = NewKVStore.watchers]
    /\ pc' = [pc EXCEPT ![n] = [t \in Threads |-> "idle"]]
    /\ cur' = [cur EXCEPT ![n] = [t \in Threads |-> NoRequest]]
    /\ raftState' = [raftState EXCEPT ![n] = "Follower"]
    /\ lastApplied' = [lastApplied EXCEPT ![n] = 0]
    /\ wpc' = [w \in WatcherIds |->
            IF wnode[w] = n /\ wpc[w] # "none" THEN "dead" ELSE wpc[w]]
    /\ events' = [w \in WatcherIds |-> IF wnode[w] = n THEN <<>> ELSE events[w]]
    /\ wtmp' = [w \in WatcherIds |-> IF wnode[w] = n THEN <<>> ELSE wtmp[w]]
    /\ UNCHANGED <<diskVars, resp, config, rlog, elections, wnode, wkey, returned>>

----------------------------------------------------------------------------
\* server.Put -> KVStore.Put(key, value)

\* kv.mu.Lock()
PutLock(n, t, key, value) ==
    /\ Listening(n) /\ pc[n][t] = "idle" /\ CanLock(n)
    /\ SetPc(n, t, "put_log")
    /\ cur' = [cur EXCEPT ![n][t] = [NoRequest EXCEPT !.op = "put", !.key = key, !.value = value]]
    /\ Serving(n)
    /\ UNCHANGED <<crashes, store, diskVars, watchers, resp, raftVars, watchVars, returned>>

\* Put as it would be without its LogWrite call
PutLogSkipped(n, t) ==
    /\ pc[n][t] = "put_log"
    /\ SetPc(n, t, "put_mem")
    /\ UNCHANGED <<nodeVars, store, diskVars, watchers, cur, resp, raftVars, watchVars,
                   returned>>

\* LogWrite(key, value)
PutLog(n, t) ==
    /\ pc[n][t] = "put_log"
    /\ wal' = [wal EXCEPT ![n] = LogWrite(wal[n], cur[n][t].key, cur[n][t].value)]
    /\ SetPc(n, t, "put_mem")
    /\ UNCHANGED <<snapshots, ndjson, nodeVars, store, db, watchers, cur, resp, raftVars, watchVars, returned>>

\* PutMem as it would be if it kept the value of a key already present
PutMemKeepsOld(n, t) ==
    /\ pc[n][t] = "put_mem"
    /\ store' = [store EXCEPT ![n] =
            IF cur[n][t].key \in DOMAIN store[n] THEN store[n]
            ELSE Upsert(store[n], cur[n][t].key, cur[n][t].value)]
    /\ SetPc(n, t, "put_db")
    /\ UNCHANGED <<nodeVars, diskVars, watchers, cur, resp, raftVars, watchVars, returned>>

\* PutMem as it would be if it wrote into a map of its own, losing the keys
\* other calls have written
PutMemForgetsOthers(n, t) ==
    /\ pc[n][t] = "put_mem"
    /\ store' = [store EXCEPT ![n] = Upsert(EmptyMap, cur[n][t].key, cur[n][t].value)]
    /\ SetPc(n, t, "put_db")
    /\ UNCHANGED <<nodeVars, diskVars, watchers, cur, resp, raftVars, watchVars, returned>>

\* kv.store[key] = value
PutMem(n, t) ==
    /\ pc[n][t] = "put_mem"
    /\ store' = [store EXCEPT ![n] = Upsert(store[n], cur[n][t].key, cur[n][t].value)]
    /\ SetPc(n, t, "put_db")
    /\ UNCHANGED <<nodeVars, diskVars, watchers, cur, resp, raftVars, watchVars, returned>>

\* PutDb as it would be if writing a key the bucket holds removed it
PutDbTogglesKey(n, t) ==
    /\ pc[n][t] = "put_db"
    /\ db' = [db EXCEPT ![n] =
            IF cur[n][t].key \in DOMAIN db[n] THEN BucketDelete(db[n], cur[n][t].key)
            ELSE BucketPut(db[n], cur[n][t].key, cur[n][t].value)]
    /\ SetPc(n, t, "put_notify")
    /\ UNCHANGED <<snapshots, ndjson, nodeVars, store, wal, watchers, cur, resp, raftVars, watchVars, returned>>

\* db.Update(... b.Put(key, value) ...), its error dropped
PutDb(n, t) ==
    /\ pc[n][t] = "put_db"
    /\ db' = [db EXCEPT ![n] = BucketPut(db[n], cur[n][t].key, cur[n][t].value)]
    /\ SetPc(n, t, "put_notify")
    /\ UNCHANGED <<snapshots, ndjson, nodeVars, store, wal, watchers, cur, resp, raftVars, watchVars, returned>>

\* PutNotify as it would be with a plain send, w.Events <- msg, which waits
\* for room in every queue
PutNotifyBlocking(n, t) ==
    /\ pc[n][t] = "put_notify"
    /\ \A w \in Range(watchers[n][cur[n][t].key]) : Len(events[w]) < ChanCap
    /\ events' = Notify(n, cur[n][t].key, cur[n][t].value)
    /\ SetPc(n, t, "propose")
    /\ UNCHANGED <<nodeVars, store, diskVars, watchers, cur, resp, raftVars,
                   wpc, wnode, wkey, wtmp, returned>>

\* for _, w := range kv.watchers[key] { select { case w.Events <- ...: default: } }
\* A send on a closed channel panics, which ends the process.
PutNotify(n, t) ==
    /\ pc[n][t] = "put_notify"
    /\ IF \E w \in Range(watchers[n][cur[n][t].key]) : wpc[w] = "closed"
       THEN /\ Stop(n)
            /\ crashes' = crashes + 1
       ELSE /\ events' = Notify(n, cur[n][t].key, cur[n][t].value)
            /\ SetPc(n, t, "propose")
            /\ UNCHANGED <<nodeVars, store, diskVars, watchers, cur, resp, raftVars,
                           wpc, wnode, wkey, wtmp, returned>>

----------------------------------------------------------------------------
\* server.Delete -> KVStore.Delete(key)

\* kv.mu.Lock()
DeleteLock(n, t, key) ==
    /\ Listening(n) /\ pc[n][t] = "idle" /\ CanLock(n)
    /\ SetPc(n, t, "del_log")
    /\ cur' = [cur EXCEPT ![n][t] = [NoRequest EXCEPT !.op = "del", !.key = key]]
    /\ Serving(n)
    /\ UNCHANGED <<crashes, store, diskVars, watchers, resp, raftVars, watchVars, returned>>

\* DeleteLog as it would be if a key that is not in the map were not logged
DeleteLogSkipsAbsent(n, t) ==
    /\ pc[n][t] = "del_log"
    /\ wal' = [wal EXCEPT ![n] =
            IF cur[n][t].key \in DOMAIN store[n]
            THEN LogDelete(wal[n], cur[n][t].key) ELSE wal[n]]
    /\ SetPc(n, t, "del_mem")
    /\ UNCHANGED <<snapshots, ndjson, nodeVars, store, db, watchers, cur, resp, raftVars, watchVars, returned>>

\* LogDelete(key)
DeleteLog(n, t) ==
    /\ pc[n][t] = "del_log"
    /\ wal' = [wal EXCEPT ![n] = LogDelete(wal[n], cur[n][t].key)]
    /\ SetPc(n, t, "del_mem")
    /\ UNCHANGED <<snapshots, ndjson, nodeVars, store, db, watchers, cur, resp, raftVars, watchVars, returned>>

\* DeleteMem as it would be if Delete told the key's watchers, as Put does
DeleteMemNotifies(n, t) ==
    /\ pc[n][t] = "del_mem"
    /\ store' = [store EXCEPT ![n] = Remove(store[n], cur[n][t].key)]
    /\ events' = Notify(n, cur[n][t].key, "")
    /\ SetPc(n, t, "del_db")
    /\ UNCHANGED <<nodeVars, diskVars, watchers, cur, resp, raftVars,
                   wpc, wnode, wkey, wtmp, returned>>

\* delete(kv.store, key)
DeleteMem(n, t) ==
    /\ pc[n][t] = "del_mem"
    /\ store' = [store EXCEPT ![n] = Remove(store[n], cur[n][t].key)]
    /\ SetPc(n, t, "del_db")
    /\ UNCHANGED <<nodeVars, diskVars, watchers, cur, resp, raftVars, watchVars, returned>>

\* db.Update(... b.Delete(key) ...), its error dropped
DeleteDb(n, t) ==
    /\ pc[n][t] = "del_db"
    /\ db' = [db EXCEPT ![n] = BucketDelete(db[n], cur[n][t].key)]
    /\ SetPc(n, t, "propose")
    /\ UNCHANGED <<snapshots, ndjson, nodeVars, store, wal, watchers, cur, resp, raftVars, watchVars, returned>>

----------------------------------------------------------------------------
\* The raft library, as far as the store depends on it.  rlog[n] is the
\* committed log as node n holds it; an entry is committed when a majority of
\* the leader's configuration holds it.

Command(op, key, value) == [op |-> op, key |-> key, value |-> value]

Quorums(cfg) == {Q \in SUBSET cfg : 2 * Cardinality(Q) > Cardinality(cfg)}

\* fsm.ApplyPut and fsm.ApplyDelete: return nil
ApplyPut(s, key, value) == s

ApplyDelete(s, key) == s

\* fsm.Apply
Apply(s, c) ==
    IF c.op = "put" THEN ApplyPut(s, c.key, c.value) ELSE ApplyDelete(s, c.key)

\* f := kv.raft.Apply(b, raftTimeout) on a store whose Open has not run:
\* kv.raft is nil, raft.Apply reads the fields of a nil *Raft and the
\* handler panics with a nil pointer dereference
RaftApplyNil(n, t) ==
    /\ pc[n][t] = "propose"
    /\ raftState[n] = "None"
    /\ crashes' = crashes + 1
    /\ Stop(n)

\* f := kv.raft.Apply(b, raftTimeout), the last call of Put and of Delete,
\* on a node that is not the leader: the future fails at once
RaftApplyNotLeader(n, t) ==
    /\ pc[n][t] = "propose"
    /\ raftState[n] = "Follower"
    /\ cur' = [cur EXCEPT ![n][t].err = ErrNotLeader]
    /\ SetPc(n, t, "return")
    /\ UNCHANGED <<nodeVars, store, diskVars, watchers, resp, raftVars, watchVars, returned>>

\* kv.raft.Apply on the leader: the entry is committed with a majority whose
\* logs are up to date
RaftApplyCommit(n, t) ==
    /\ pc[n][t] = "propose"
    /\ raftState[n] = "Leader"
    /\ \E Q \in Quorums(config[n]) :
        /\ n \in Q
        /\ \A m \in Q : Up(m) /\ rlog[m] = rlog[n]
        /\ rlog' = [m \in Nodes |->
                IF m \in Q
                THEN Append(rlog[m], Command(cur[n][t].op, cur[n][t].key, cur[n][t].value))
                ELSE rlog[m]]
    /\ cur' = [cur EXCEPT ![n][t].index = Len(rlog[n]) + 1]
    /\ SetPc(n, t, "wait")
    /\ UNCHANGED <<nodeVars, store, diskVars, watchers, resp, raftState, config,
                   lastApplied, elections, watchVars, returned>>

\* kv.raft.Apply on a leader that would hold on to its leadership, and to the
\* entry, for as long as no majority answers
RaftApplyWithoutLease(n, t) ==
    /\ pc[n][t] = "propose"
    /\ raftState[n] = "Leader"
    /\ Cardinality(config[n]) > 1
    /\ FALSE
    /\ UNCHANGED vars

\* kv.raft.Apply on a leader of several voters that loses its majority before
\* the entry is committed: the leader's lease runs out, it steps down and
\* fails the futures in flight
RaftApplyLeadershipLost(n, t) ==
    /\ pc[n][t] = "propose"
    /\ raftState[n] = "Leader"
    /\ Cardinality(config[n]) > 1
    /\ elections < MaxElections
    /\ raftState' = [raftState EXCEPT ![n] = "Follower"]
    /\ elections' = elections + 1
    /\ cur' = [cur EXCEPT ![n][t].err = ErrLeadershipLost]
    /\ SetPc(n, t, "return")
    /\ UNCHANGED <<nodeVars, store, diskVars, watchers, resp, config, rlog,
                   lastApplied, watchVars, returned>>

\* return f.Error(): waits until the entry has gone through fsm.Apply here
FutureError(n, t) ==
    /\ pc[n][t] = "wait"
    /\ lastApplied[n] >= cur[n][t].index
    /\ cur' = [cur EXCEPT ![n][t].err = ErrNil]
    /\ SetPc(n, t, "return")
    /\ UNCHANGED <<nodeVars, store, diskVars, watchers, resp, raftVars, watchVars, returned>>

\* KVStore.Put returns (kv.mu.Unlock()); server.Put drops its result and
\* answers PutResponse{Success: true}
PutReturn(n, t) ==
    /\ pc[n][t] = "return" /\ cur[n][t].op = "put"
    /\ resp' = [resp EXCEPT ![n] =
            [op |-> "put", key |-> cur[n][t].key, success |-> TRUE, err |-> cur[n][t].err]]
    /\ returned' = [returned EXCEPT ![n] = Append(@, Command("put", cur[n][t].key, cur[n][t].value))]
    /\ cur' = [cur EXCEPT ![n][t] = NoRequest]
    /\ SetPc(n, t, "idle")
    /\ UNCHANGED <<nodeVars, store, diskVars, watchers, raftVars, watchVars>>

\* KVStore.Delete returns (kv.mu.Unlock()); server.Delete drops its result
\* and answers DeleteResponse{Key: key}
DeleteReturn(n, t) ==
    /\ pc[n][t] = "return" /\ cur[n][t].op = "del"
    /\ resp' = [resp EXCEPT ![n] =
            [op |-> "del", key |-> cur[n][t].key, success |-> TRUE, err |-> cur[n][t].err]]
    /\ returned' = [returned EXCEPT ![n] = Append(@, Command("del", cur[n][t].key, ""))]
    /\ cur' = [cur EXCEPT ![n][t] = NoRequest]
    /\ SetPc(n, t, "idle")
    /\ UNCHANGED <<nodeVars, store, diskVars, watchers, raftVars, watchVars>>

\* raft hands the next committed entry to the node's FSM
FsmApply(n) ==
    /\ Up(n)
    /\ lastApplied[n] < Len(rlog[n])
    /\ store' = [store EXCEPT ![n] = Apply(store[n], rlog[n][lastApplied[n] + 1])]
    /\ lastApplied' = [lastApplied EXCEPT ![n] = @ + 1]
    /\ UNCHANGED <<nodeVars, diskVars, watchers, pc, cur, resp, raftState, config,
                   rlog, elections, watchVars, returned>>

\* the leader sends a follower the next committed entry it lacks
Replicate(l, f) ==
    /\ Up(l) /\ Up(f) /\ l # f
    /\ raftState[l] = "Leader" /\ raftState[f] = "Follower"
    /\ f \in config[l]
    /\ Len(rlog[f]) < Len(rlog[l])
    /\ rlog' = [rlog EXCEPT ![f] = Append(@, rlog[l][Len(rlog[f]) + 1])]
    /\ UNCHANGED <<nodeVars, store, diskVars, watchers, pc, cur, resp, raftState,
                   config, lastApplied, elections, watchVars, returned>>

\* fsm.Snapshot: var snapshot map[string]string; return &kvSnapshot{data:
\* snapshot}: the map handed over is the nil map whatever the store holds
Snapshot(s) == [data |-> EmptyMap]

\* kvSnapshot.Persist: json.NewEncoder(sink).Encode(s.data)
Persist(snapshot) == snapshot.data

\* fsm.Restore: return nil, the stream is not read and the store is not
\* touched
Restore(s, rc) == s

\* no snapshot taken yet; mem is the map the store held when the snapshot was
\* taken, restored whether fsm.Restore has been run on it
NoSnapshot == [index |-> 0, data |-> EmptyMap, mem |-> EmptyMap, restored |-> FALSE]

\* raft snapshots the node's FSM once entries have been applied since the
\* last snapshot: fsm.Snapshot, then Persist
FsmSnapshot(n) ==
    /\ Up(n)
    /\ lastApplied[n] > snapshots[n].index
    /\ snapshots' = [snapshots EXCEPT ![n] =
            [index |-> lastApplied[n], data |-> Persist(Snapshot(store[n])),
             mem |-> store[n], restored |-> FALSE]]
    /\ UNCHANGED <<nodeVars, store, db, wal, ndjson, watchers, pc, cur, resp, raftVars,
                   watchVars, returned>>

\* raft restores the node's FSM from its latest snapshot: fsm.Restore
FsmRestore(n) ==
    /\ Up(n)
    /\ snapshots[n].index > 0 /\ ~snapshots[n].restored
    /\ ~WriteLocked(n)
    /\ store' = [store EXCEPT ![n] = Restore(store[n], snapshots[n].data)]
    /\ snapshots' = [snapshots EXCEPT ![n].restored = TRUE]
    /\ UNCHANGED <<nodeVars, db, wal, ndjson, watchers, pc, cur, resp, raftVars,
                   watchVars, returned>>

\* a node wins an election: a majority of its configuration is up and no
\* member of it holds a longer log; the previous leader steps down
BecomeLeader(n) ==
    /\ Up(n) /\ raftState[n] = "Follower"
    /\ elections < MaxElections
    /\ \E Q \in Quorums(config[n]) :
        /\ n \in Q
        /\ \A m \in Q : Up(m) /\ Len(rlog[m]) <= Len(rlog[n])
    /\ raftState' = [m \in Nodes |->
            IF m = n THEN "Leader"
            ELSE IF m \in config[n] THEN "Follower" ELSE raftState[m]]
    /\ elections' = elections + 1
    /\ UNCHANGED <<nodeVars, store, diskVars, watchers, pc, cur, resp, config, rlog,
                   lastApplied, watchVars, returned>>

\* a leader of several voters loses touch with its majority
StepDown(n) ==
    /\ Up(n) /\ raftState[n] = "Leader"
    /\ Cardinality(config[n]) > 1
    /\ elections < MaxElections
    /\ raftState' = [raftState EXCEPT ![n] = "Follower"]
    /\ elections' = elections + 1
    /\ UNCHANGED <<nodeVars, store, diskVars, watchers, pc, cur, resp, config, rlog,
                   lastApplied, watchVars, returned>>

\* what s.raft.AddVoter(peerID, peerAddress, 0, 0) answers on node l: a node
\* that is not the leader refuses; the leader accepts a server that is
\* already a voter as well (raft rewrites the voter's address and commits
\* the configuration again)
AddVoterError(l, p) == IF raftState[l] # "Leader" THEN ErrNotLeader ELSE ErrNil

\* KVStore.Join(peerAddress, peerID) on node l: raft.AddVoter of peer p,
\* which has opened its own raft and holds no log yet, and the future's
\* error returned to the caller
Join(l, p) ==
    /\ Up(l) /\ Up(p)
    /\ (raftState[l] = "Leader" /\ p \notin config[l]) => rlog[p] = <<>>
    /\ IF AddVoterError(l, p) = ErrNil /\ p \notin config[l]
       THEN /\ config' = [m \in Nodes |->
                    IF m \in config[l] \cup {p} THEN config[l] \cup {p} ELSE config[m]]
            /\ raftState' = [raftState EXCEPT ![p] = "Follower"]
       ELSE UNCHANGED <<config, raftState>>
    /\ resp' = [resp EXCEPT ![l] =
            [op |-> "join", key |-> "", success |-> AddVoterError(l, p) = ErrNil,
             err |-> AddVoterError(l, p)]]
    /\ UNCHANGED <<nodeVars, store, diskVars, watchers, pc, cur, rlog,
                   lastApplied, elections, watchVars, returned>>

----------------------------------------------------------------------------
\* server.Watch: w := s.store.Watch(key); defer s.store.Unwatch(w);
\* for event := range w.Events { stream.Send(event) }

\* append(watchersList[:i], watchersList[i+1:]...) for the first i with
\* watchersList[i] == w
RemoveFirst(list, w) ==
    LET i == CHOOSE j \in 1..Len(list) :
                list[j] = w /\ \A h \in 1..(j - 1) : list[h] # w
    IN  SubSeq(list, 1, i - 1) \o SubSeq(list, i + 1, Len(list))

\* KVStore.Watch, first half: kv.mu.RLock(); w := &KVWatcher{Key: key,
\* Events: make(chan string, 10)}; read kv.watchers[key]
Watch(w, n, key) ==
    /\ Listening(n) /\ CanRLock(n)
    /\ wpc[w] = "none"
    /\ \A u \in WatcherIds : u < w => wpc[u] # "none"
    /\ wpc' = [wpc EXCEPT ![w] = "watch_append"]
    /\ wnode' = [wnode EXCEPT ![w] = n]
    /\ wkey' = [wkey EXCEPT ![w] = key]
    /\ wtmp' = [wtmp EXCEPT ![w] = watchers[n][key]]
    /\ Serving(n)
    /\ UNCHANGED <<crashes, store, diskVars, watchers, pc, cur, resp, raftVars,
                   events, returned>>

\* KVStore.Watch, second half: kv.watchers[key] = append(<the list read>, w);
\* kv.mu.RUnlock(); return w
WatchAppend(w) ==
    /\ wpc[w] = "watch_append"
    /\ watchers' = [watchers EXCEPT ![wnode[w]][wkey[w]] = Append(wtmp[w], w)]
    /\ wpc' = [wpc EXCEPT ![w] = "streaming"]
    /\ wtmp' = [wtmp EXCEPT ![w] = <<>>]
    /\ UNCHANGED <<nodeVars, store, diskVars, pc, cur, resp, raftVars, wnode, wkey,
                   events, returned>>

\* one turn of the stream loop: receive an event and stream.Send it; a failed
\* send (the subscriber is gone) leaves the loop
StreamSend(w, sent) ==
    /\ wpc[w] = "streaming"
    /\ events[w] # <<>>
    /\ events' = [events EXCEPT ![w] = Tail(@)]
    /\ wpc' = [wpc EXCEPT ![w] = IF sent THEN "streaming" ELSE "disconnected"]
    /\ UNCHANGED <<nodeVars, store, diskVars, watchers, pc, cur, resp, raftVars,
                   wnode, wkey, wtmp, returned>>

\* the subscriber goes away: its stream is cancelled; the loop, which waits
\* on w.Events alone and never looks at stream.Context(), stays where it is
Disconnect(w) ==
    /\ wpc[w] = "streaming"
    /\ wpc' = [wpc EXCEPT ![w] = "streaming_gone"]
    /\ UNCHANGED <<nodeVars, store, diskVars, watchers, pc, cur, resp, raftVars,
                   wnode, wkey, wtmp, events, returned>>

\* a turn of the stream loop after the subscriber went away: an event is
\* received, stream.Send fails and the handler returns err
StreamSendGone(w) ==
    /\ wpc[w] = "streaming_gone"
    /\ events[w] # <<>>
    /\ events' = [events EXCEPT ![w] = Tail(@)]
    /\ wpc' = [wpc EXCEPT ![w] = "disconnected"]
    /\ UNCHANGED <<nodeVars, store, diskVars, watchers, pc, cur, resp, raftVars,
                   wnode, wkey, wtmp, returned>>

\* KVStore.Unwatch (deferred), first half: kv.mu.RLock(); read
\* kv.watchers[w.Key]
Unwatch(w) ==
    /\ wpc[w] = "disconnected"
    /\ CanRLock(wnode[w])
    /\ wtmp' = [wtmp EXCEPT ![w] = watchers[wnode[w]][wkey[w]]]
    /\ wpc' = [wpc EXCEPT ![w] = "unwatch_remove"]
    /\ UNCHANGED <<nodeVars, store, diskVars, watchers, pc, cur, resp, raftVars,
                   wnode, wkey, events, returned>>

\* KVStore.Unwatch, second half: when w is in the list read, write the list
\* without it and close(w.Events); kv.mu.RUnlock()
UnwatchRemove(w) ==
    /\ wpc[w] = "unwatch_remove"
    /\ IF w \in Range(wtmp[w])
       THEN /\ watchers' = [watchers EXCEPT ![wnode[w]][wkey[w]] = RemoveFirst(wtmp[w], w)]
            /\ wpc' = [wpc EXCEPT ![w] = "closed"]
            /\ events' = [events EXCEPT ![w] = <<>>]
       ELSE /\ wpc' = [wpc EXCEPT ![w] = "returned"]
            /\ UNCHANGED <<watchers, events>>
    /\ wtmp' = [wtmp EXCEPT ![w] = <<>>]
    /\ UNCHANGED <<nodeVars, store, diskVars, pc, cur, resp, raftVars, wnode, wkey,
                   returned>>

\* a second Unwatch(w), called while the first holds the read lock and has
\* read the list: kv.mu.RLock() admits it, and it reads the same list
UnwatchSecond(w) ==
    /\ wpc[w] = "unwatch_remove"
    /\ CanRLock(wnode[w])
    /\ watchers[wnode[w]][wkey[w]] = wtmp[w]
    /\ wpc' = [wpc EXCEPT ![w] = "unwatch_both"]
    /\ UNCHANGED <<nodeVars, store, diskVars, watchers, pc, cur, resp, raftVars,
                   wnode, wkey, wtmp, events, returned>>

\* one of the two Unwatch(w) calls takes its second half and returns; the
\* other still holds the list it read
UnwatchBothFirst(w) ==
    /\ wpc[w] = "unwatch_both"
    /\ IF w \in Range(wtmp[w])
       THEN /\ watchers' = [watchers EXCEPT ![wnode[w]][wkey[w]] = RemoveFirst(wtmp[w], w)]
            /\ wpc' = [wpc EXCEPT ![w] = "unwatch_again_closed"]
            /\ events' = [events EXCEPT ![w] = <<>>]
       ELSE /\ wpc' = [wpc EXCEPT ![w] = "unwatch_again_open"]
            /\ UNCHANGED <<watchers, events>>
    /\ UNCHANGED <<nodeVars, store, diskVars, pc, cur, resp, raftVars, wnode, wkey,
                   wtmp, returned>>

\* KVStore.Unwatch called once more on a watcher whose Unwatch has returned
\* (store/kv_test.go calls it twice in a row), first half: kv.mu.RLock();
\* read kv.watchers[w.Key]
UnwatchAgain(w) ==
    /\ wpc[w] \in {"closed", "returned"}
    /\ CanRLock(wnode[w])
    /\ wtmp' = [wtmp EXCEPT ![w] = watchers[wnode[w]][wkey[w]]]
    /\ wpc' = [wpc EXCEPT ![w] =
            IF wpc[w] = "closed" THEN "unwatch_again_closed" ELSE "unwatch_again_open"]
    /\ UNCHANGED <<nodeVars, store, diskVars, watchers, pc, cur, resp, raftVars,
                   wnode, wkey, events, returned>>

\* the repeated call with close(w.Events) done whether or not w is found
UnwatchAgainAlwaysCloses(w) ==
    /\ wpc[w] \in {"unwatch_again_open", "unwatch_again_closed"}
    /\ IF wpc[w] = "unwatch_again_closed"
       THEN /\ Stop(wnode[w])
            /\ crashes' = crashes + 1
       ELSE /\ wpc' = [wpc EXCEPT ![w] = "closed"]
            /\ events' = [events EXCEPT ![w] = <<>>]
            /\ wtmp' = [wtmp EXCEPT ![w] = <<>>]
            /\ UNCHANGED <<nodeVars, store, diskVars, watchers, pc, cur, resp,
                           raftVars, wnode, wkey, returned>>

\* the repeated call, second half: when w is in the list read, write the
\* list without it and close(w.Events), and closing a closed channel panics;
\* when it is not, nothing
UnwatchAgainRemove(w) ==
    /\ wpc[w] \in {"unwatch_again_open", "unwatch_again_closed"}
    /\ IF w \in Range(wtmp[w])
       THEN IF wpc[w] = "unwatch_again_closed"
            THEN /\ Stop(wnode[w])
                 /\ crashes' = crashes + 1
            ELSE /\ watchers' = [watchers EXCEPT ![wnode[w]][wkey[w]] =
                                        RemoveFirst(wtmp[w], w)]
                 /\ wpc' = [wpc EXCEPT ![w] = "closed"]
                 /\ events' = [events EXCEPT ![w] = <<>>]
                 /\ wtmp' = [wtmp EXCEPT ![w] = <<>>]
                 /\ UNCHANGED <<nodeVars, store, diskVars, pc, cur, resp, raftVars,
                                wnode, wkey, returned>>
       ELSE /\ wpc' = [wpc EXCEPT ![w] =
                    IF wpc[w] = "unwatch_again_closed" THEN "closed" ELSE "returned"]
            /\ wtmp' = [wtmp EXCEPT ![w] = <<>>]
            /\ UNCHANGED <<nodeVars, store, diskVars, watchers, pc, cur, resp,
                           raftVars, wnode, wkey, events, returned>>

----------------------------------------------------------------------------
\* The process: main() and its end.

\* PutFromDb as it would be if it made a new map for the pair
PutFromDbReplaces(s, key, value) == Upsert(EmptyMap, key, value)

\* KVStore.PutFromDb
PutFromDb(s, key, value) == Upsert(s, key, value)

\* b.ForEach(func(k, v) { s.store.PutFromDb(k, v) }) on a new store
RECURSIVE Rehydrate(_, _)
Rehydrate(s, b) ==
    IF DOMAIN b = {} THEN s
    ELSE LET k == CHOOSE x \in DOMAIN b : TRUE
         IN  Rehydrate(PutFromDb(s, k, b[k]), Remove(b, k))

\* Open as it would be without the BootstrapCluster call
OpenWithoutBootstrap(cfg, n) == cfg

\* KVStore.Open: raft.NewRaft, then BootstrapCluster with the local node as
\* the only voter, its error dropped: it takes effect on a node without raft
\* state only
Open(cfg, n) == IF cfg = {} THEN {n} ELSE cfg

\* what myRaft.BootstrapCluster(configuration) returns: raft refuses to
\* bootstrap a node that holds raft state
BootstrapClusterError(cfg) == IF cfg = {} THEN ErrNil ELSE "ErrCantBootstrap"

\* what KVStore.Open returns once the raft directory exists: the results of
\* NewBoltStore, NewFileSnapshotStore, NewRaft and BootstrapCluster are
\* logged or dropped, and the function ends with return nil
OpenError(cfg) == ErrNil

\* the setup steps of Open that can fail
OpenSteps == {"MkdirAll", "logsDb", "stableDb", "snapshotStore", "NewRaft"}

\* how Open ends when the steps in failed fail: a failed MkdirAll is
\* returned; the error of NewBoltStore, NewFileSnapshotStore or NewRaft is
\* logged and Open goes on, with the nil store handed to raft.NewRaft and the
\* nil *Raft used for BootstrapCluster, which ends in a nil pointer
\* dereference before Open can return
OpenResult(failed) ==
    IF "MkdirAll" \in failed THEN "ErrMkdirAll"
    ELSE IF failed # {} THEN "panic"
    ELSE ErrNil

\* main() on a machine where steps of Open fail: NewKVStore, InitDb,
\* store.Init, Open, whose result main drops; kv.raft stays nil when Open
\* returns early
RestartOpenFails(n, failed) ==
    /\ status[n] = "down"
    /\ failed # {}
    /\ resp' = [resp EXCEPT ![n] =
            [op |-> "open", key |-> "", success |-> OpenResult(failed) = ErrNil,
             err |-> OpenResult(failed), failed |-> failed]]
    /\ IF OpenResult(failed) = "panic"
       THEN /\ crashes' = crashes + 1
            /\ UNCHANGED <<status, raftState>>
       ELSE /\ status' = [status EXCEPT ![n] = "starting"]
            /\ raftState' = [raftState EXCEPT ![n] = "None"]
            /\ UNCHANGED crashes
    /\ store' = [store EXCEPT ![n] = NewKVStore.store]
    /\ UNCHANGED <<diskVars, watchers, pc, cur, config, rlog, lastApplied, elections,
                   watchVars, returned>>

\* a crash or a kill at any point
Crash(n) ==
    /\ Up(n)
    /\ crashes < MaxCrashes
    /\ crashes' = crashes + 1
    /\ Stop(n)

\* what a write cut short leaves of a record: some of its bytes, no newline
TornRecord(wallog) == [wallog EXCEPT !.Operation = "Torn"]

\* the record that thread t of node n is about to append
InFlightRecord(n, t) ==
    IF cur[n][t].op = "put" THEN WalLog("Write", cur[n][t].key, cur[n][t].value)
    ELSE WalLog("Delete", cur[n][t].key, "")

\* a crash inside file.Write(append(data, '\n')): part of the record has
\* reached the file
CrashInAppend(n, t) ==
    /\ Up(n)
    /\ pc[n][t] \in {"put_log", "del_log"}
    /\ crashes < MaxCrashes
    /\ crashes' = crashes + 1
    /\ wal' = [wal EXCEPT ![n] = appendLogToFile(wal[n], TornRecord(InFlightRecord(n, t)))]
    /\ status' = [status EXCEPT ![n] = "down"]
    /\ store' = [store EXCEPT ![n] = NewKVStore.store]
    /\ watchers' = [watchers EXCEPT ![n] = NewKVStore.watchers]
    /\ pc' = [pc EXCEPT ![n] = [u \in Threads |-> "idle"]]
    /\ cur' = [cur EXCEPT ![n] = [u \in Threads |-> NoRequest]]
    /\ raftState' = [raftState EXCEPT ![n] = "Follower"]
    /\ lastApplied' = [lastApplied EXCEPT ![n] = 0]
    /\ wpc' = [w \in WatcherIds |->
            IF wnode[w] = n /\ wpc[w] # "none" THEN "dead" ELSE wpc[w]]
    /\ events' = [w \in WatcherIds |-> IF wnode[w] = n THEN <<>> ELSE events[w]]
    /\ wtmp' = [w \in WatcherIds |-> IF wnode[w] = n THEN <<>> ELSE wtmp[w]]
    /\ UNCHANGED <<snapshots, ndjson, db, resp, config, rlog, elections, wnode, wkey, returned>>

\* main() up to the scan: NewKVStore, InitDb, store.Init, Open (raft starts);
\* net.Listen has bound the port, no handler runs yet
Restart(n) ==
    /\ status[n] = "down"
    /\ status' = [status EXCEPT ![n] = "starting"]
    /\ store' = [store EXCEPT ![n] = NewKVStore.store]
    /\ config' = [config EXCEPT ![n] = Open(@, n)]
    /\ UNCHANGED <<crashes, diskVars, watchers, pc, cur, resp, raftState, rlog,
                   lastApplied, elections, watchVars, returned>>

\* the keys in the byte order in which b.ForEach visits them
KeyOrder == <<"", "a", "b", "c">>

\* the bucket keys that b.ForEach has not visited yet
Unvisited(n) == {i \in 1..Len(KeyOrder) :
                    KeyOrder[i] \in DOMAIN db[n] /\ KeyOrder[i] \notin DOMAIN store[n]}

\* one turn of b.ForEach in main(): s.store.PutFromDb(string(k), string(v))
RehydrateStep(n) ==
    /\ status[n] = "starting"
    /\ Unvisited(n) # {}
    /\ LET i == CHOOSE x \in Unvisited(n) : \A y \in Unvisited(n) : x <= y
       IN  store' = [store EXCEPT ![n] = PutFromDb(@, KeyOrder[i], db[n][KeyOrder[i]])]
    /\ UNCHANGED <<nodeVars, diskVars, watchers, pc, cur, resp, raftVars, watchVars,
                   returned>>

\* main() serving although the scan has not ended
ServeDuringScan(n) ==
    /\ status[n] = "starting"
    /\ status' = [status EXCEPT ![n] = "fresh"]
    /\ UNCHANGED <<crashes, store, diskVars, watchers, pc, cur, resp, raftVars,
                   watchVars, returned>>

\* db.View has returned: srv.Serve(lis)
Serve(n) ==
    /\ status[n] = "starting"
    /\ Unvisited(n) = {}
    /\ status' = [status EXCEPT ![n] = "fresh"]
    /\ UNCHANGED <<crashes, store, diskVars, watchers, pc, cur, resp, raftVars,
                   watchVars, returned>>

----------------------------------------------------------------------------

\* The WAL file's text.  A string is a sequence of characters; "LF" is the
\* newline, "QUOTE" the double quote, "BSLASH" the backslash, "n" a letter.
Chars == {"n", "LF", "QUOTE", "BSLASH"}
MaxStrLen == 2
Strings == UNION {[1..k -> Chars] : k \in 0..MaxStrLen}

\* type Operation uint8; const ( Write Operation = iota; Delete )
Write == 0
Delete == 1

\* Operation.String
String(o) == IF o = Write THEN "Write" ELSE IF o = Delete THEN "Delete" ELSE "Unknown"

\* encoding/json writing a string: quote, backslash and newline are escaped
EscapeChar(c) ==
    IF c = "QUOTE" THEN <<"BSLASH", "QUOTE">>
    ELSE IF c = "BSLASH" THEN <<"BSLASH", "BSLASH">>
    ELSE IF c = "LF" THEN <<"BSLASH", "n">>
    ELSE <<c>>

RECURSIVE EscapeString(_)
EscapeString(str) ==
    IF str = <<>> THEN <<>> ELSE EscapeChar(Head(str)) \o EscapeString(Tail(str))

\* encoding/json reading a string back
RECURSIVE UnescapeString(_)
UnescapeString(text) ==
    IF text = <<>> THEN <<>>
    ELSE IF Head(text) = "BSLASH" /\ Len(text) > 1
         THEN <<IF text[2] = "n" THEN "LF" ELSE text[2]>> \o UnescapeString(Tail(Tail(text)))
         ELSE <<Head(text)>> \o UnescapeString(Tail(text))

\* Operation.MarshalJSON: json.Marshal(o.String()), a JSON string
MarshalJSON(o) == [kind |-> "string", text |-> String(o)]

\* json.Marshal(wallog): the fields of the line (the Timestamp is a number)
Marshal(wallog) ==
    [Operation |-> MarshalJSON(wallog.Operation),
     Key |-> [kind |-> "string", text |-> EscapeString(wallog.Key)],
     Value |-> [kind |-> "string", text |-> EscapeString(wallog.Value)]]

\* bufio.Scanner cuts the file at every raw newline: a line comes back whole
\* when its text holds none
ScansWhole(line) ==
    \A f \in {"Key", "Value"} : \A i \in 1..Len(line[f].text) : line[f].text[i] # "LF"

\* json.Unmarshal([]byte(line), &entry) into a WalLog: Operation is a uint8
\* without an UnmarshalJSON method, so a JSON string does not fit it: the
\* field keeps its zero value, the other fields are decoded and the call
\* returns an UnmarshalTypeError
Unmarshal(line) ==
    [entry |-> WalLog(IF line.Operation.kind = "number" THEN line.Operation.num ELSE 0,
                      UnescapeString(line.Key.text), UnescapeString(line.Value.text)),
     err |-> IF ~ScansWhole(line) THEN "SyntaxError"
             ELSE IF line.Operation.kind # "number" THEN "UnmarshalTypeError"
             ELSE ErrNil]

NoLine == [at |-> "none"]

\* the records LogWrite(key, value) and LogDelete(key) hand to appendLogToFile
LogRecords ==
    {WalLog(Write, k, v) : k \in Strings, v \in Strings}
        \cup {WalLog(Delete, k, <<>>) : k \in Strings}

\* appendLogToFile: data, err := json.Marshal(wallog); file.Write(append(data, '\n'))
AppendLine ==
    /\ ndjson.at = "record"
    /\ ndjson' = [at |-> "line", record |-> ndjson.record, line |-> Marshal(ndjson.record)]
    /\ UNCHANGED <<nodeVars, store, db, wal, snapshots, watchers, pc, cur, resp, raftVars,
                   watchVars, returned>>

\* readAllLogEntries: scanner.Scan, json.Unmarshal of the line into a WalLog
ReadLine ==
    /\ ndjson.at = "line"
    /\ ndjson' = [at |-> "entry", record |-> ndjson.record, line |-> ndjson.line,
                  entry |-> Unmarshal(ndjson.line).entry, err |-> Unmarshal(ndjson.line).err]
    /\ UNCHANGED <<nodeVars, store, db, wal, snapshots, watchers, pc, cur, resp, raftVars,
                   watchVars, returned>>

\* the node of the specifications that run one node
Solo == {1}

InitRest ==
    /\ snapshots = [n \in Nodes |-> NoSnapshot]
    /\ watchers = [n \in Nodes |-> NewKVStore.watchers]
    /\ pc = [n \in Nodes |-> [t \in Threads |-> "idle"]]
    /\ cur = [n \in Nodes |-> [t \in Threads |-> NoRequest]]
    /\ resp = [n \in Nodes |-> NoResponse]
    /\ rlog = [n \in Nodes |-> <<>>]
    /\ lastApplied = [n \in Nodes |-> 0]
    /\ elections = 0
    /\ wpc = [w \in WatcherIds |-> "none"]
    /\ wnode = [w \in WatcherIds |-> 0]
    /\ wkey = [w \in WatcherIds |-> ""]
    /\ wtmp = [w \in WatcherIds |-> <<>>]
    /\ events = [w \in WatcherIds |-> <<>>]
    /\ returned = [n \in Nodes |-> <<>>]
    /\ crashes = 0

InitStore ==
    /\ status = [n \in Nodes |-> "fresh"]
    /\ store = [n \in Nodes |-> Rehydrate(NewKVStore.store, EmptyMap)]
    /\ db = [n \in Nodes |-> EmptyMap]
    /\ wal = [n \in Nodes |-> <<>>]
    /\ raftState = [n \in Nodes |-> "Follower"]
    /\ config = [n \in Nodes |-> Open({}, n)]
    /\ InitRest

Init == InitStore /\ ndjson = NoLine


\* A store made by NewKVStore after Init(db) whose Open is never called, as
\* the tests of the store and of the server set it up.
InitUnopened ==
    /\ status = [n \in Nodes |-> "fresh"]
    /\ store = [n \in Nodes |-> NewKVStore.store]
    /\ db = [n \in Nodes |-> EmptyMap]
    /\ wal = [n \in Nodes |-> <<>>]
    /\ raftState = [n \in Nodes |-> "None"]
    /\ config = [n \in Nodes |-> {}]
    /\ InitRest
    /\ ndjson = NoLine

NextUnopened ==
    \/ \E n \in Solo, t \in Threads, k \in Keys, v \in Values : PutLock(n, t, k, v)
    \/ \E n \in Solo, t \in Threads : PutLog(n, t)
    \/ \E n \in Solo, t \in Threads : PutMem(n, t)
    \/ \E n \in Solo, t \in Threads : PutDb(n, t)
    \/ \E n \in Solo, t \in Threads : PutNotify(n, t)
    \/ \E n \in Solo, t \in Threads, k \in Keys : DeleteLock(n, t, k)
    \/ \E n \in Solo, t \in Threads : DeleteLog(n, t)
    \/ \E n \in Solo, t \in Threads : DeleteMem(n, t)
    \/ \E n \in Solo, t \in Threads : DeleteDb(n, t)
    \/ \E n \in Solo, t \in Threads : RaftApplyNil(n, t)
    \/ \E w \in WatcherIds, n \in Solo, k \in Keys : Watch(w, n, k)
    \/ \E w \in WatcherIds : WatchAppend(w)

SpecUnopened == InitUnopened /\ [][NextUnopened]_vars

\* One record written to the WAL file and read back, for each record LogWrite
\* and LogDelete can write.
InitCodec == InitStore /\ ndjson \in {[at |-> "record", record |-> r] : r \in LogRecords}

NextCodec ==
    \/ AppendLine
    \/ ReadLine

SpecCodec == InitCodec /\ [][NextCodec]_vars

\* One node serving Put and Delete from concurrent handlers, with its
\* process stopping and restarting.

Next ==
    \/ \E n \in Solo, t \in Threads, k \in Keys, v \in Values :
            OpsStarted < MaxOps /\ PutLock(n, t, k, v)
    \/ \E n \in Solo, t \in Threads : PutLog(n, t)
    \/ \E n \in Solo, t \in Threads : PutMem(n, t)
    \/ \E n \in Solo, t \in Threads : PutDb(n, t)
    \/ \E n \in Solo, t \in Threads : PutNotify(n, t)
    \/ \E n \in Solo, t \in Threads, k \in Keys :
            OpsStarted < MaxOps /\ DeleteLock(n, t, k)
    \/ \E n \in Solo, t \in Threads : DeleteLog(n, t)
    \/ \E n \in Solo, t \in Threads : DeleteMem(n, t)
    \/ \E n \in Solo, t \in Threads : DeleteDb(n, t)
    \/ \E n \in Solo, t \in Threads : RaftApplyNotLeader(n, t)
    \/ \E n \in Solo, t \in Threads : RaftApplyCommit(n, t)
    \/ \E n \in Solo, t \in Threads : FutureError(n, t)
    \/ \E n \in Solo, t \in Threads : PutReturn(n, t)
    \/ \E n \in Solo, t \in Threads : DeleteReturn(n, t)
    \/ \E n \in Solo : FsmApply(n)
    \/ \E n \in Solo : BecomeLeader(n)
    \/ \E n \in Solo : Crash(n)
    \/ \E n \in Solo : Restart(n)
    \/ \E n \in Solo : RehydrateStep(n)
    \/ \E n \in Solo : Serve(n)

Spec == Init /\ [][Next]_vars

\* A node that has stopped with pairs in its bucket, each written by a Put
\* that logged it first, starts again: the startup scan.
ScanKeys == {"a", "b", "c"}
Buckets == UNION {[K -> Values] : K \in SUBSET ScanKeys}

RECURSIVE WalOf(_, _)
WalOf(b, i) ==
    IF i > Len(KeyOrder) THEN <<>>
    ELSE (IF KeyOrder[i] \in DOMAIN b
          THEN <<WalLog("Write", KeyOrder[i], b[KeyOrder[i]])>> ELSE <<>>)
         \o WalOf(b, i + 1)

InitScan ==
    /\ status = [n \in Nodes |-> IF n \in Solo THEN "down" ELSE "fresh"]
    /\ store = [n \in Nodes |-> NewKVStore.store]
    /\ \E b \in Buckets :
            /\ db = [n \in Nodes |-> IF n \in Solo THEN b ELSE EmptyMap]
            /\ wal = [n \in Nodes |-> IF n \in Solo THEN WalOf(b, 1) ELSE <<>>]
    /\ raftState = [n \in Nodes |-> "Follower"]
    /\ config = [n \in Nodes |-> Open({}, n)]
    /\ InitRest
    /\ ndjson = NoLine

NextScan ==
    \/ \E n \in Solo : Restart(n)
    \/ \E n \in Solo : RehydrateStep(n)
    \/ \E n \in Solo : Serve(n)
    \/ \E n \in Solo : Crash(n)

SpecScan == InitScan /\ [][NextScan]_vars

\* One node that keeps running: Put and Delete calls from concurrent
\* handlers, no stop.
CallsMaxOps == 3

NextCalls ==
    \/ \E n \in Solo, t \in Threads, k \in Keys, v \in Values :
            OpsStarted < CallsMaxOps /\ PutLock(n, t, k, v)
    \/ \E n \in Solo, t \in Threads : PutLog(n, t)
    \/ \E n \in Solo, t \in Threads : PutMem(n, t)
    \/ \E n \in Solo, t \in Threads : PutDb(n, t)
    \/ \E n \in Solo, t \in Threads : PutNotify(n, t)
    \/ \E n \in Solo, t \in Threads, k \in Keys :
            OpsStarted < CallsMaxOps /\ DeleteLock(n, t, k)
    \/ \E n \in Solo, t \in Threads : DeleteLog(n, t)
    \/ \E n \in Solo, t \in Threads : DeleteMem(n, t)
    \/ \E n \in Solo, t \in Threads : DeleteDb(n, t)
    \/ \E n \in Solo, t \in Threads : RaftApplyNotLeader(n, t)
    \/ \E n \in Solo, t \in Threads : RaftApplyCommit(n, t)
    \/ \E n \in Solo, t \in Threads : FutureError(n, t)
    \/ \E n \in Solo, t \in Threads : PutReturn(n, t)
    \/ \E n \in Solo, t \in Threads : DeleteReturn(n, t)
    \/ \E n \in Solo : FsmApply(n)
    \/ \E n \in Solo : BecomeLeader(n)

SpecCalls == Init /\ [][NextCalls]_vars

\* Two nodes, one handler each: the second node joins the first one's
\* configuration, entries are replicated and handed to both FSMs.
ClusterThreads == {1}
ClusterKeys == {"a"}
ClusterMaxOps == 2

NextCluster ==
    \/ \E n \in Nodes, t \in ClusterThreads, k \in ClusterKeys, v \in Values :
            OpsStarted < ClusterMaxOps /\ PutLock(n, t, k, v)
    \/ \E n \in Nodes, t \in ClusterThreads : PutLog(n, t)
    \/ \E n \in Nodes, t \in ClusterThreads : PutMem(n, t)
    \/ \E n \in Nodes, t \in ClusterThreads : PutDb(n, t)
    \/ \E n \in Nodes, t \in ClusterThreads : PutNotify(n, t)
    \/ \E n \in Nodes, t \in ClusterThreads, k \in ClusterKeys :
            OpsStarted < ClusterMaxOps /\ DeleteLock(n, t, k)
    \/ \E n \in Nodes, t \in ClusterThreads : DeleteLog(n, t)
    \/ \E n \in Nodes, t \in ClusterThreads : DeleteMem(n, t)
    \/ \E n \in Nodes, t \in ClusterThreads : DeleteDb(n, t)
    \/ \E n \in Nodes, t \in ClusterThreads : RaftApplyNotLeader(n, t)
    \/ \E n \in Nodes, t \in ClusterThreads : RaftApplyCommit(n, t)
    \/ \E n \in Nodes, t \in ClusterThreads : RaftApplyLeadershipLost(n, t)
    \/ \E n \in Nodes, t \in ClusterThreads : FutureError(n, t)
    \/ \E n \in Nodes, t \in ClusterThreads : PutReturn(n, t)
    \/ \E n \in Nodes, t \in ClusterThreads : DeleteReturn(n, t)
    \/ \E n \in Nodes : FsmApply(n)
    \/ \E l \in Nodes, f \in Nodes : Replicate(l, f)
    \/ \E n \in Nodes : BecomeLeader(n)
    \/ \E n \in Nodes : StepDown(n)
    \/ \E l \in Nodes, p \in Nodes : Join(l, p)

SpecCluster == Init /\ [][NextCluster]_vars

\* One node with watch streams: subscriptions, deliveries, drains and
\* unsubscriptions interleaved with Puts and Deletes.
WatchThreads == {1}
WatchMaxOps == 2

NextWatch ==
    \/ \E n \in Solo, t \in WatchThreads, k \in Keys, v \in Values :
            OpsStarted < WatchMaxOps /\ PutLock(n, t, k, v)
    \/ \E n \in Solo, t \in WatchThreads : PutLog(n, t)
    \/ \E n \in Solo, t \in WatchThreads : PutMem(n, t)
    \/ \E n \in Solo, t \in WatchThreads : PutDb(n, t)
    \/ \E n \in Solo, t \in WatchThreads : PutNotify(n, t)
    \/ \E n \in Solo, t \in WatchThreads, k \in Keys :
            OpsStarted < WatchMaxOps /\ DeleteLock(n, t, k)
    \/ \E n \in Solo, t \in WatchThreads : DeleteLog(n, t)
    \/ \E n \in Solo, t \in WatchThreads : DeleteMem(n, t)
    \/ \E n \in Solo, t \in WatchThreads : DeleteDb(n, t)
    \/ \E n \in Solo, t \in WatchThreads : RaftApplyNotLeader(n, t)
    \/ \E n \in Solo, t \in WatchThreads : RaftApplyCommit(n, t)
    \/ \E n \in Solo, t \in WatchThreads : FutureError(n, t)
    \/ \E n \in Solo, t \in WatchThreads : PutReturn(n, t)
    \/ \E n \in Solo, t \in WatchThreads : DeleteReturn(n, t)
    \/ \E n \in Solo : FsmApply(n)
    \/ \E n \in Solo : BecomeLeader(n)
    \/ \E w \in WatcherIds, n \in Solo, k \in Keys : Watch(w, n, k)
    \/ \E w \in WatcherIds : WatchAppend(w)
    \/ \E w \in WatcherIds, sent \in BOOLEAN : StreamSend(w, sent)
    \/ \E w \in WatcherIds : Unwatch(w)
    \/ \E w \in WatcherIds : UnwatchRemove(w)

SpecWatch == Init /\ [][NextWatch]_vars

\* The one key and value written where a single key is enough.
FullKey == "a"
FullValue == "1"

\* One node whose subscribers come and go: streams are opened, fail and are
\* unwatched, with Unwatch repeated, while Puts of the watched key go on.
UnwatchMaxOps == 2

NextUnwatch ==
    \/ \E n \in Solo, t \in WatchThreads :
            OpsStarted < UnwatchMaxOps /\ PutLock(n, t, FullKey, FullValue)
    \/ \E n \in Solo, t \in WatchThreads : PutLog(n, t)
    \/ \E n \in Solo, t \in WatchThreads : PutMem(n, t)
    \/ \E n \in Solo, t \in WatchThreads : PutDb(n, t)
    \/ \E n \in Solo, t \in WatchThreads : PutNotify(n, t)
    \/ \E n \in Solo, t \in WatchThreads : RaftApplyNotLeader(n, t)
    \/ \E n \in Solo, t \in WatchThreads : PutReturn(n, t)
    \/ \E w \in WatcherIds, n \in Solo : Watch(w, n, FullKey)
    \/ \E w \in WatcherIds : WatchAppend(w)
    \/ \E w \in WatcherIds, sent \in BOOLEAN : StreamSend(w, sent)
    \/ \E w \in WatcherIds : Unwatch(w)
    \/ \E w \in WatcherIds : UnwatchRemove(w)
    \/ \E w \in WatcherIds : UnwatchAgain(w)
    \/ \E w \in WatcherIds : UnwatchAgainRemove(w)

SpecUnwatch == Init /\ [][NextUnwatch]_vars

\* One node whose subscribers go away.  A handler that can take a step
\* takes it sooner or later (goroutines are scheduled); nothing obliges a
\* client to send a Put.
GoneMaxOps == 2

NextGone ==
    \/ \E n \in Solo, t \in WatchThreads :
            OpsStarted < GoneMaxOps /\ PutLock(n, t, FullKey, FullValue)
    \/ \E n \in Solo, t \in WatchThreads : PutLog(n, t)
    \/ \E n \in Solo, t \in WatchThreads : PutMem(n, t)
    \/ \E n \in Solo, t \in WatchThreads : PutDb(n, t)
    \/ \E n \in Solo, t \in WatchThreads : PutNotify(n, t)
    \/ \E n \in Solo, t \in WatchThreads : RaftApplyNotLeader(n, t)
    \/ \E n \in Solo, t \in WatchThreads : PutReturn(n, t)
    \/ \E w \in WatcherIds, n \in Solo : Watch(w, n, FullKey)
    \/ \E w \in WatcherIds : WatchAppend(w)
    \/ \E w \in WatcherIds : StreamSend(w, TRUE)
    \/ \E w \in WatcherIds : Disconnect(w)
    \/ \E w \in WatcherIds : StreamSendGone(w)
    \/ \E w \in WatcherIds : Unwatch(w)
    \/ \E w \in WatcherIds : UnwatchRemove(w)

FairGone ==
    /\ \A n \in Solo, t \in WatchThreads :
            /\ WF_vars(PutLog(n, t)) /\ WF_vars(PutMem(n, t)) /\ WF_vars(PutDb(n, t))
            /\ WF_vars(PutNotify(n, t)) /\ WF_vars(RaftApplyNotLeader(n, t))
            /\ WF_vars(PutReturn(n, t))
    /\ \A w \in WatcherIds :
            /\ WF_vars(WatchAppend(w)) /\ WF_vars(StreamSend(w, TRUE))
            /\ WF_vars(StreamSendGone(w))
            /\ WF_vars(Unwatch(w)) /\ WF_vars(UnwatchRemove(w))

SpecGone == Init /\ [][NextGone]_vars /\ FairGone

\* One node and its WAL file: calls one after another, the process stopping
\* at any point, also in the middle of an append, and restarting.
\* A crash is the process ending (panic, kill): what write(2) has taken
\* stays in the file.  The machine losing power before the kernel has
\* written its pages back (the code never calls file.Sync) is not modelled.
WalMaxOps == 3

NextWal ==
    \/ \E n \in Solo, t \in WatchThreads, k \in Keys, v \in Values :
            OpsStarted < WalMaxOps /\ PutLock(n, t, k, v)
    \/ \E n \in Solo, t \in WatchThreads : PutLog(n, t)
    \/ \E n \in Solo, t \in WatchThreads : PutMem(n, t)
    \/ \E n \in Solo, t \in WatchThreads : PutDb(n, t)
    \/ \E n \in Solo, t \in WatchThreads : PutNotify(n, t)
    \/ \E n \in Solo, t \in WatchThreads, k \in Keys :
            OpsStarted < WalMaxOps /\ DeleteLock(n, t, k)
    \/ \E n \in Solo, t \in WatchThreads : DeleteLog(n, t)
    \/ \E n \in Solo, t \in WatchThreads : DeleteMem(n, t)
    \/ \E n \in Solo, t \in WatchThreads : DeleteDb(n, t)
    \/ \E n \in Solo, t \in WatchThreads : RaftApplyNotLeader(n, t)
    \/ \E n \in Solo, t \in WatchThreads : PutReturn(n, t)
    \/ \E n \in Solo, t \in WatchThreads : DeleteReturn(n, t)
    \/ \E n \in Solo : Crash(n)
    \/ \E n \in Solo, t \in WatchThreads : CrashInAppend(n, t)
    \/ \E n \in Solo : Restart(n)
    \/ \E n \in Solo : RehydrateStep(n)
    \/ \E n \in Solo : Serve(n)

SpecWal == Init /\ [][NextWal]_vars

\* One node serving calls one after another while its raft goes through
\* elections, takes a second voter in and loses it.  The serving node keeps
\* running; the steps of a handler that can be taken are taken, raft hands
\* committed entries to the FSM, and nothing is assumed of elections, of Join
\* and of the peer.
Peers == Nodes \ Solo
LiveMaxOps == 2
LiveMaxElections == 1

NextLive ==
    \/ \E n \in Solo, t \in ClusterThreads :
            OpsStarted < LiveMaxOps /\ PutLock(n, t, FullKey, FullValue)
    \/ \E n \in Solo, t \in ClusterThreads : PutLog(n, t)
    \/ \E n \in Solo, t \in ClusterThreads : PutMem(n, t)
    \/ \E n \in Solo, t \in ClusterThreads : PutDb(n, t)
    \/ \E n \in Solo, t \in ClusterThreads : PutNotify(n, t)
    \/ \E n \in Solo, t \in ClusterThreads :
            OpsStarted < LiveMaxOps /\ DeleteLock(n, t, FullKey)
    \/ \E n \in Solo, t \in ClusterThreads : DeleteLog(n, t)
    \/ \E n \in Solo, t \in ClusterThreads : DeleteMem(n, t)
    \/ \E n \in Solo, t \in ClusterThreads : DeleteDb(n, t)
    \/ \E n \in Solo, t \in ClusterThreads : RaftApplyNotLeader(n, t)
    \/ \E n \in Solo, t \in ClusterThreads : RaftApplyCommit(n, t)
    \/ \E n \in Solo, t \in ClusterThreads : RaftApplyLeadershipLost(n, t)
    \/ \E n \in Solo, t \in ClusterThreads : FutureError(n, t)
    \/ \E n \in Solo, t \in ClusterThreads : PutReturn(n, t)
    \/ \E n \in Solo, t \in ClusterThreads : DeleteReturn(n, t)
    \/ \E n \in Nodes : FsmApply(n)
    \/ \E l \in Nodes, f \in Nodes : Replicate(l, f)
    \/ \E n \in Nodes : elections < LiveMaxElections /\ BecomeLeader(n)
    \/ \E n \in Nodes : StepDown(n)
    \/ \E l \in Nodes, p \in Nodes : Join(l, p)
    \/ \E n \in Peers : Crash(n)

FairLive ==
    /\ \A n \in Solo, t \in ClusterThreads :
            /\ WF_vars(PutLog(n, t)) /\ WF_vars(PutMem(n, t)) /\ WF_vars(PutDb(n, t))
            /\ WF_vars(PutNotify(n, t))
            /\ WF_vars(DeleteLog(n, t)) /\ WF_vars(DeleteMem(n, t))
            /\ WF_vars(DeleteDb(n, t))
            /\ WF_vars(RaftApplyNotLeader(n, t)) /\ WF_vars(RaftApplyCommit(n, t))
            /\ WF_vars(RaftApplyLeadershipLost(n, t))
            /\ WF_vars(FutureError(n, t))
            /\ WF_vars(PutReturn(n, t)) /\ WF_vars(DeleteReturn(n, t))
    /\ \A n \in Solo : WF_vars(FsmApply(n))

SpecLive == Init /\ [][NextLive]_vars /\ FairLive

\* One node serving Put and Delete from concurrent handlers while watchers
\* register.
SerialMaxOps == 2

NextSerial ==
    \/ \E n \in Solo, t \in Threads, k \in Keys, v \in Values :
            OpsStarted < SerialMaxOps /\ PutLock(n, t, k, v)
    \/ \E n \in Solo, t \in Threads : PutLog(n, t)
    \/ \E n \in Solo, t \in Threads : PutMem(n, t)
    \/ \E n \in Solo, t \in Threads : PutDb(n, t)
    \/ \E n \in Solo, t \in Threads : PutNotify(n, t)
    \/ \E n \in Solo, t \in Threads, k \in Keys :
            OpsStarted < SerialMaxOps /\ DeleteLock(n, t, k)
    \/ \E n \in Solo, t \in Threads : DeleteLog(n, t)
    \/ \E n \in Solo, t \in Threads : DeleteMem(n, t)
    \/ \E n \in Solo, t \in Threads : DeleteDb(n, t)
    \/ \E n \in Solo, t \in Threads : RaftApplyNotLeader(n, t)
    \/ \E n \in Solo, t \in Threads : PutReturn(n, t)
    \/ \E n \in Solo, t \in Threads : DeleteReturn(n, t)
    \/ \E w \in WatcherIds, n \in Solo, k \in Keys : Watch(w, n, k)
    \/ \E w \in WatcherIds : WatchAppend(w)

SpecSerial == Init /\ [][NextSerial]_vars

\* server.GetAll -> KVStore.GetAll: kv.mu.RLock(); return kv.store;
\* kv.mu.RUnlock().  The handler returns the map itself in its response and
\* gRPC serializes the response after the lock is released.
GetAllServe(n, t) ==
    /\ Listening(n) /\ pc[n][t] = "idle" /\ CanRLock(n)
    /\ SetPc(n, t, "getall_marshal")
    /\ cur' = [cur EXCEPT ![n][t] = [NoRequest EXCEPT !.op = "getall"]]
    /\ Serving(n)
    /\ UNCHANGED <<crashes, store, diskVars, watchers, resp, raftVars, watchVars, returned>>

\* the response has been serialized and sent
GetAllReturn(n, t) ==
    /\ pc[n][t] = "getall_marshal"
    /\ resp' = [resp EXCEPT ![n] =
            [op |-> "getall", key |-> "", success |-> TRUE, err |-> ErrNil]]
    /\ cur' = [cur EXCEPT ![n][t] = NoRequest]
    /\ SetPc(n, t, "idle")
    /\ UNCHANGED <<nodeVars, store, diskVars, watchers, raftVars, watchVars, returned>>

\* a handler writes the map while another iterates over it without the lock:
\* the Go runtime may notice and end the process (fatal error: concurrent
\* map iteration and map write); when it does not, both go on
MapRaceFatal(n) ==
    /\ \E t \in Threads : pc[n][t] = "getall_marshal"
    /\ \E t \in Threads : pc[n][t] \in {"put_mem", "del_mem"}
    /\ crashes' = crashes + 1
    /\ Stop(n)

\* One node serving Put, Delete and GetAll from concurrent handlers.
GetAllMaxOps == 2

NextGetAll ==
    \/ \E n \in Solo, t \in Threads, k \in Keys, v \in Values :
            OpsStarted < GetAllMaxOps /\ PutLock(n, t, k, v)
    \/ \E n \in Solo, t \in Threads : PutLog(n, t)
    \/ \E n \in Solo, t \in Threads : PutMem(n, t)
    \/ \E n \in Solo, t \in Threads : PutDb(n, t)
    \/ \E n \in Solo, t \in Threads : PutNotify(n, t)
    \/ \E n \in Solo, t \in Threads, k \in Keys :
            OpsStarted < GetAllMaxOps /\ DeleteLock(n, t, k)
    \/ \E n \in Solo, t \in Threads : DeleteLog(n, t)
    \/ \E n \in Solo, t \in Threads : DeleteMem(n, t)
    \/ \E n \in Solo, t \in Threads : DeleteDb(n, t)
    \/ \E n \in Solo, t \in Threads : RaftApplyNotLeader(n, t)
    \/ \E n \in Solo, t \in Threads : PutReturn(n, t)
    \/ \E n \in Solo, t \in Threads : DeleteReturn(n, t)
    \/ \E n \in Solo, t \in Threads : GetAllServe(n, t)
    \/ \E n \in Solo, t \in Threads : GetAllReturn(n, t)
    \/ \E n \in Solo : MapRaceFatal(n)

SpecGetAll == Init /\ [][NextGetAll]_vars

\* Watchers of one key whose Unwatch is called twice, one call after the
\* other or both at once.
NextUnwatchTwice ==
    \/ \E n \in Solo, t \in WatchThreads :
            OpsStarted < UnwatchMaxOps /\ PutLock(n, t, FullKey, FullValue)
    \/ \E n \in Solo, t \in WatchThreads : PutLog(n, t)
    \/ \E n \in Solo, t \in WatchThreads : PutMem(n, t)
    \/ \E n \in Solo, t \in WatchThreads : PutDb(n, t)
    \/ \E n \in Solo, t \in WatchThreads : PutNotify(n, t)
    \/ \E n \in Solo, t \in WatchThreads : RaftApplyNotLeader(n, t)
    \/ \E n \in Solo, t \in WatchThreads : PutReturn(n, t)
    \/ \E w \in WatcherIds, n \in Solo : Watch(w, n, FullKey)
    \/ \E w \in WatcherIds : WatchAppend(w)
    \/ \E w \in WatcherIds, sent \in BOOLEAN : StreamSend(w, sent)
    \/ \E w \in WatcherIds : Unwatch(w)
    \/ \E w \in WatcherIds : UnwatchRemove(w)
    \/ \E w \in WatcherIds : UnwatchSecond(w)
    \/ \E w \in WatcherIds : UnwatchBothFirst(w)
    \/ \E w \in WatcherIds : UnwatchAgain(w)
    \/ \E w \in WatcherIds : UnwatchAgainRemove(w)

SpecUnwatchTwice == Init /\ [][NextUnwatchTwice]_vars

\* One node that stops and starts again, on a machine where setup steps of
\* Open may fail.
OpenMaxOps == 2
OpenMaxStarts == 2

NextOpen ==
    \/ \E n \in Solo, t \in WatchThreads, k \in Keys, v \in Values :
            OpsStarted < OpenMaxOps /\ PutLock(n, t, k, v)
    \/ \E n \in Solo, t \in WatchThreads : PutLog(n, t)
    \/ \E n \in Solo, t \in WatchThreads : PutMem(n, t)
    \/ \E n \in Solo, t \in WatchThreads : PutDb(n, t)
    \/ \E n \in Solo, t \in WatchThreads : PutNotify(n, t)
    \/ \E n \in Solo, t \in WatchThreads : RaftApplyNotLeader(n, t)
    \/ \E n \in Solo, t \in WatchThreads : RaftApplyNil(n, t)
    \/ \E n \in Solo, t \in WatchThreads : PutReturn(n, t)
    \/ \E n \in Solo : Crash(n)
    \/ \E n \in Solo : Restart(n)
    \/ \E n \in Solo, failed \in SUBSET OpenSteps :
            crashes < OpenMaxStarts /\ RestartOpenFails(n, failed)
    \/ \E n \in Solo : RehydrateStep(n)
    \/ \E n \in Solo : Serve(n)

SpecOpen == Init /\ [][NextOpen]_vars

\* One node whose raft snapshots its FSM and restores it from the snapshot.
SnapMaxOps == 2

NextSnap ==
    \/ \E n \in Solo, t \in WatchThreads, k \in Keys, v \in Values :
            OpsStarted < SnapMaxOps /\ PutLock(n, t, k, v)
    \/ \E n \in Solo, t \in WatchThreads : PutLog(n, t)
    \/ \E n \in Solo, t \in WatchThreads : PutMem(n, t)
    \/ \E n \in Solo, t \in WatchThreads : PutDb(n, t)
    \/ \E n \in Solo, t \in WatchThreads : PutNotify(n, t)
    \/ \E n \in Solo, t \in WatchThreads, k \in Keys :
            OpsStarted < SnapMaxOps /\ DeleteLock(n, t, k)
    \/ \E n \in Solo, t \in WatchThreads : DeleteLog(n, t)
    \/ \E n \in Solo, t \in WatchThreads : DeleteMem(n, t)
    \/ \E n \in Solo, t \in WatchThreads : DeleteDb(n, t)
    \/ \E n \in Solo, t \in WatchThreads : RaftApplyNotLeader(n, t)
    \/ \E n \in Solo, t \in WatchThreads : RaftApplyCommit(n, t)
    \/ \E n \in Solo, t \in WatchThreads : FutureError(n, t)
    \/ \E n \in Solo, t \in WatchThreads : PutReturn(n, t)
    \/ \E n \in Solo, t \in WatchThreads : DeleteReturn(n, t)
    \/ \E n \in Solo : FsmApply(n)
    \/ \E n \in Solo : BecomeLeader(n)
    \/ \E n \in Solo : FsmSnapshot(n)
    \/ \E n \in Solo : FsmRestore(n)

SpecSnap == Init /\ [][NextSnap]_vars

\* One node whose watchers fall behind: Puts of one key go on while the
\* streams drain slowly or not at all, until a queue is full.
FullMaxOps == 11

NextFull ==
    \/ \E n \in Solo, t \in WatchThreads :
            OpsStarted < FullMaxOps /\ PutLock(n, t, FullKey, FullValue)
    \/ \E n \in Solo, t \in WatchThreads : PutLog(n, t)
    \/ \E n \in Solo, t \in WatchThreads : PutMem(n, t)
    \/ \E n \in Solo, t \in WatchThreads : PutDb(n, t)
    \/ \E n \in Solo, t \in WatchThreads : PutNotify(n, t)
    \/ \E n \in Solo, t \in WatchThreads : RaftApplyNotLeader(n, t)
    \/ \E n \in Solo, t \in WatchThreads : PutReturn(n, t)
    \/ \E w \in WatcherIds, n \in Solo : Watch(w, n, FullKey)
    \/ \E w \in WatcherIds : WatchAppend(w)
    \/ \E w \in WatcherIds : StreamSend(w, TRUE)

SpecFull == Init /\ [][NextFull]_vars

----------------------------------------------------------------------------
\* What the calls that returned amount to, read off the sequence of calls
\* alone.

\* the value of the most recent put of key that no delete of key follows
LastWrite(calls, key) ==
    LET at == {i \in 1..Len(calls) : calls[i].key = key} IN
    IF at = {} THEN ""
    ELSE LET last == CHOOSE i \in at : \A j \in at : j <= i IN
         IF calls[last].op = "put" THEN calls[last].value ELSE ""

\* the calls replayed in order on an empty map
RECURSIVE Replay(_)
Replay(calls) ==
    IF calls = <<>> THEN [x \in {} |-> ""]
    ELSE LET before == Replay(SubSeq(calls, 1, Len(calls) - 1))
             c == calls[Len(calls)]
         IN  IF c.op = "put"
             THEN [x \in (DOMAIN before) \cup {c.key} |->
                        IF x = c.key THEN c.value ELSE before[x]]
             ELSE [x \in (DOMAIN before) \ {c.key} |-> before[x]]

Committed(n, c) == \E i \in 1..Len(rlog[n]) : rlog[n][i] = c

----------------------------------------------------------------------------
\* C1: a node's map, WAL and bucket change only after the consensus group
\* has committed the command: whatever a node holds is backed by a committed
\* command of its raft log.
C1_MutationOnlyAfterCommit ==
    \A n \in Nodes :
        /\ \A k \in DOMAIN store[n] : Committed(n, Command("put", k, store[n][k]))
        /\ \A k \in DOMAIN db[n] : Committed(n, Command("put", k, db[n][k]))
        /\ \A i \in 1..Len(wal[n]) :
                Committed(n, Command(IF wal[n][i].Operation = "Write" THEN "put" ELSE "del",
                                     wal[n][i].Key, wal[n][i].Value))

\* C3: a Put or Delete on a node that is not the leader fails with NotLeader
\* and the client is not told it succeeded: no response says success (put) or
\* acknowledges (delete) a call whose proposal was refused with NotLeader.
C3_NotLeaderNeverAnswered ==
    \A n \in Nodes : resp[n].err = ErrNotLeader => ~resp[n].success

\* C4: on a node that has not stopped and has no Put or Delete in progress,
\* Get(k) is the value of the most recent Put(k, v) that no Delete(k) follows,
\* the empty string if there is none, and the map is the one that replaying
\* the calls on an empty map gives.
C4_GetReturnsLastWrite ==
    \A n \in Nodes :
        (crashes = 0 /\ ~WriteLocked(n)) =>
            /\ \A k \in Keys : Get(n, k) = LastWrite(returned[n], k)
            /\ GetAll(n) = Replay(returned[n])

\* C4's case: a key is put, deleted and put again with another value; all
\* three calls have returned and Get reads the second value.
C4_Witness ==
    \E n \in Nodes :
        /\ crashes = 0 /\ ~WriteLocked(n)
        /\ Len(returned[n]) = 3
        /\ returned[n][1] = Command("put", "a", "1")
        /\ returned[n][2] = Command("del", "a", "")
        /\ returned[n][3] = Command("put", "a", "2")
        /\ Get(n, "a") = "2"

\* C5: after a stop and a restart the rehydrated map is the state the calls
\* that had returned before the stop produce.  Stated for the stops that cut
\* no call short (every call that wrote its WAL record had returned) on a
\* node whose calls were all committed by raft.
C5_RestartKeepsReturnedCalls ==
    \A n \in Nodes :
        (/\ status[n] = "fresh"
         /\ Len(wal[n]) = Len(returned[n])
         /\ Len(rlog[n]) = Len(returned[n])) =>
            \A k \in Keys : Get(n, k) = LastWrite(returned[n], k)

\* C2: two nodes of one configuration that have processed the same prefix of
\* committed commands hold the same map (a Put committed through the leader
\* is visible on a follower that has processed it).
C2_SamePrefixSameState ==
    \A a \in Nodes, b \in Nodes :
        (/\ a \in config[b] /\ b \in config[a]
         /\ ~WriteLocked(a) /\ ~WriteLocked(b)
         /\ lastApplied[a] > 0
         /\ lastApplied[a] = lastApplied[b]
         /\ SubSeq(rlog[a], 1, lastApplied[a]) = SubSeq(rlog[b], 1, lastApplied[b]))
        => GetAll(a) = GetAll(b)

\* Watch has returned watcher w for key on node n and its Unwatch has not
\* been called.
Subscribed(w, n, key) ==
    wpc[w] = "streaming" /\ wnode[w] = n /\ wkey[w] = key

\* Thread t of node n takes the delivery step of a Put.
Delivers(n, t) == pc[n][t] = "put_notify" /\ pc'[n][t] = "propose"

\* Thread t of node n takes a step of a Delete, from kv.mu.Lock() to its return.
DeleteSteps(n, t) ==
    \/ pc[n][t] = "idle" /\ pc'[n][t] = "del_log"
    \/ pc[n][t] = "del_log" /\ pc'[n][t] = "del_mem"
    \/ pc[n][t] = "del_mem" /\ pc'[n][t] = "del_db"
    \/ pc[n][t] = "del_db" /\ pc'[n][t] = "propose"
    \/ /\ cur[n][t].op = "del"
       /\ \/ pc[n][t] = "propose" /\ pc'[n][t] \in {"wait", "return"}
          \/ pc[n][t] = "wait" /\ pc'[n][t] = "return"
          \/ pc[n][t] = "return" /\ pc'[n][t] = "idle" /\ Up(n)'

\* C6: a subscribed watcher whose queue is not full gets exactly one
\* notification, naming the key and the new value, appended to its queue by
\* every Put on its key; so two such watchers get the same sequence.
C6_EveryPutReachesSubscriber ==
    [][\A n \in Nodes, t \in Threads :
        Delivers(n, t) =>
            \A w \in WatcherIds :
                (Subscribed(w, n, cur[n][t].key) /\ Len(events[w]) < ChanCap) =>
                    events'[w] = Append(events[w], Sprintf(cur[n][t].key, cur[n][t].value))]_vars

\* C7: a watcher registered on key k never receives a notification caused by
\* a Put on another key: every notification in a watcher's queue names the
\* watcher's own key.
C7_OnlyOwnKey ==
    \A w \in WatcherIds :
        \A i \in 1..Len(events[w]) :
            \E v \in Values : events[w][i] = Sprintf(wkey[w], v)

\* C7's case: a Put on "a" and then a Put on "" have returned with a watcher
\* subscribed on each key throughout; each holds the one notification of its
\* own key.
C7_Witness ==
    \E w \in WatcherIds, u \in WatcherIds, n \in Nodes :
        /\ Subscribed(w, n, "a") /\ Subscribed(u, n, "")
        /\ returned[n] = <<Command("put", "a", "1"), Command("put", "", "2")>>
        /\ events[w] = <<Sprintf("a", "1")>>
        /\ events[u] = <<Sprintf("", "2")>>

\* C8: Delete delivers no notification: no step of a Delete changes the queue
\* of any watcher, on the deleted key or on another.
C8_DeleteNotifiesNobody ==
    [][\A n \in Nodes, t \in Threads : DeleteSteps(n, t) => events' = events]_vars

\* C8's case: a Delete of a key has returned while a watcher subscribed on
\* that key holds the notification of the Put before it.
C8_Witness ==
    \E w \in WatcherIds, n \in Nodes :
        /\ Subscribed(w, n, "a")
        /\ returned[n] = <<Command("put", "a", "1"), Command("del", "a", "")>>
        /\ events[w] = <<Sprintf("a", "1")>>

\* C10: watchers are notified of committed mutations only: once the Puts of
\* a node have returned, every notification in a queue of that node is that
\* of a put command in the node's committed log.
C10_NotifiedOnlyOfCommitted ==
    \A n \in Nodes :
        ~WriteLocked(n) =>
            \A w \in WatcherIds :
                wnode[w] = n =>
                    \A i \in 1..Len(events[w]) :
                        \E j \in 1..Len(rlog[n]) :
                            /\ rlog[n][j].op = "put"
                            /\ events[w][i] = Sprintf(rlog[n][j].key, rlog[n][j].value)

\* C9: delivery never blocks a Put.  A Put at its delivery step can always
\* take it, and the step leaves the queue of a watcher that holds ChanCap
\* undrained notifications as it is while every other watcher of the key
\* gets the notification appended.
C9_DeliveryNeverBlocks ==
    /\ [](\A n \in Nodes, t \in Threads :
            pc[n][t] = "put_notify" => ENABLED PutNotify(n, t))
    /\ [][\A n \in Nodes, t \in Threads :
            Delivers(n, t) =>
                \A w \in Range(watchers[n][cur[n][t].key]) :
                    events'[w] =
                        IF Len(events[w]) = ChanCap THEN events[w]
                        ELSE Append(events[w], Sprintf(cur[n][t].key, cur[n][t].value))]_vars

\* C9's case: a Put is at its delivery step while one watcher of its key
\* holds ChanCap notifications and another has room.
C9_Witness ==
    \E n \in Nodes, t \in Threads, w \in WatcherIds, u \in WatcherIds :
        /\ pc[n][t] = "put_notify"
        /\ w \in Range(watchers[n][cur[n][t].key])
        /\ u \in Range(watchers[n][cur[n][t].key])
        /\ Len(events[w]) = ChanCap
        /\ Len(events[u]) < ChanCap

\* Watcher w's Watch call writes the registry and returns.
Registers(w) == wpc[w] = "watch_append" /\ wpc'[w] = "streaming"

\* C11: Subscribe(key) returns a new watcher with that key and an empty queue
\* of capacity ChanCap and registers it under key: the key's list grows by
\* exactly one, every watcher that was registered (on any key) stays
\* registered, and no queue ever holds more than ChanCap notifications.
C11_WatchRegistersOne ==
    /\ [](\A w \in WatcherIds : Len(events[w]) <= ChanCap)
    /\ [][\A w \in WatcherIds :
            Registers(w) =>
                /\ events'[w] = <<>>
                /\ w \in Range(watchers'[wnode[w]][wkey[w]])
                /\ Len(watchers'[wnode[w]][wkey[w]]) =
                        Len(watchers[wnode[w]][wkey[w]]) + 1
                /\ \A n \in Nodes, k \in Keys :
                        Range(watchers[n][k]) \subseteq Range(watchers'[n][k])]_vars

\* Watcher w's Unwatch call takes its second half and returns.
Unregisters(w) == wpc[w] = "unwatch_remove" /\ wpc'[w] # "unwatch_remove"

\* C12: Unsubscribe(w) of a registered watcher removes exactly w from its
\* key's list and closes w's queue; every other watcher stays registered with
\* its queue open and unchanged, and w, once closed, is in no list, so no
\* later Put delivers to it.
C12_UnwatchRemovesOnlyItself ==
    /\ [](\A w \in WatcherIds, n \in Nodes, k \in Keys :
            wpc[w] = "closed" => w \notin Range(watchers[n][k]))
    /\ [][\A w \in WatcherIds :
            (Unregisters(w) /\ w \in Range(watchers[wnode[w]][wkey[w]])) =>
                /\ wpc'[w] = "closed"
                /\ \A n \in Nodes, k \in Keys :
                        Range(watchers'[n][k]) = Range(watchers[n][k]) \ {w}
                /\ \A u \in WatcherIds \ {w} :
                        wpc'[u] = wpc[u] /\ events'[u] = events[u]]_vars

\* An Unwatch call of watcher w, the first or a repeated one, takes its
\* second half and returns (or ends the process).
UnwatchReturns(w) ==
    /\ wpc[w] \in {"unwatch_remove", "unwatch_again_open", "unwatch_again_closed"}
    /\ wpc'[w] # wpc[w]

\* w.Events has been closed
Closed(w) == wpc[w] \in {"closed", "unwatch_again_closed"}

\* A repeated Unwatch of watcher u is about to close u's closed queue.
ClosesTwice(u) == wpc[u] = "unwatch_again_closed" /\ u \in Range(wtmp[u])

\* C13: Unsubscribe of a watcher that was not in the registry when the call
\* looked for it (its registration was lost, or it is already unsubscribed)
\* is a no-op: the registry is unchanged, no queue is closed or changed, and
\* the process goes on; so a second Unwatch in sequence changes nothing.
\* (The step is the call's own: no other call is about to end the process.)
C13_UnwatchAbsentIsNoOp ==
    [][\A w \in WatcherIds :
        (/\ UnwatchReturns(w)
         /\ w \notin Range(wtmp[w])
         /\ \A u \in WatcherIds \ {w} : ~ClosesTwice(u)) =>
            /\ watchers' = watchers
            /\ events' = events
            /\ status' = status
            /\ Closed(w)' = Closed(w)
            /\ \A u \in WatcherIds \ {w} : wpc'[u] = wpc[u]]_vars

\* C13's case: Unwatch is called again on a watcher that a first Unwatch has
\* removed and closed, and finds it absent, while another watcher is
\* registered.
C13_Witness ==
    \E w \in WatcherIds, u \in WatcherIds :
        /\ wpc[w] = "unwatch_again_closed"
        /\ w \notin Range(wtmp[w])
        /\ wtmp[w] = <<u>>
        /\ wpc[u] = "streaming"

\* C14: when a watch subscriber disconnects, its stream handler terminates:
\* the watcher's Unwatch runs (removing it from the registry and closing its
\* queue), also when no further Put on the watched key occurs.
C14_DisconnectedIsRemoved ==
    \A w \in WatcherIds :
        (wpc[w] = "streaming_gone") ~> (wpc[w] \in {"closed", "returned", "dead"})

\* Thread t of node n has finished its local updates and is proposing its
\* command to raft or waiting for it to commit.
InConsensus(n, t) == pc[n][t] \in {"propose", "wait"}

\* C15: a Get never waits on a consensus round: while a Put or Delete is
\* proposing or waiting for its commit, kv.mu.RLock() of a Get returns.
C15_GetNeverWaitsOnConsensus ==
    \A n \in Nodes, t \in Threads : InConsensus(n, t) => CanRLock(n)

\* C16: a Put or Delete waiting for its proposal to commit does not prevent
\* another one from being proposed: another handler of the node can start a
\* Put and a Delete meanwhile.
C16_ProposalsOverlap ==
    \A n \in Nodes, t \in Threads, u \in Threads :
        (pc[n][t] = "wait" /\ u # t) =>
            /\ \A k \in Keys, v \in Values : ENABLED PutLock(n, u, k, v)
            /\ \A k \in Keys : ENABLED DeleteLock(n, u, k)

\* the WAL record of a call
RecordOf(c) ==
    IF c.op = "put" THEN [Operation |-> "Write", Key |-> c.key, Value |-> c.value]
    ELSE [Operation |-> "Delete", Key |-> c.key, Value |-> ""]

\* C17: after N Put/Delete calls on a node the WAL holds exactly N entries,
\* one per call, with the calls' operation, key and value in the order in
\* which the calls changed the map (the order in which they held the lock
\* and returned); a Delete of an absent key adds its entry too.
C17_WalHoldsEveryCall ==
    \A n \in Nodes :
        ~WriteLocked(n) =>
            /\ Len(wal[n]) = Len(returned[n])
            /\ \A i \in 1..Len(wal[n]) : wal[n][i] = RecordOf(returned[n][i])

\* C17's case: three calls have returned, the first a Delete of a key that
\* was never written, the last a Delete of another absent key.
C17_Witness ==
    \E n \in Nodes :
        /\ ~WriteLocked(n)
        /\ returned[n] = <<Command("del", "a", ""), Command("put", "a", "1"),
                           Command("del", "", "")>>
        /\ Len(wal[n]) = 3

\* Sequence a is the beginning of sequence b.
IsPrefix(a, b) == Len(a) <= Len(b) /\ SubSeq(b, 1, Len(a)) = a

C19_StoreErrorSurfaces ==
    \A n \in Nodes :
        (resp[n].op = "put" /\ BucketPutError(resp[n].key) # ErrNil) =>
            /\ resp[n].err = BucketPutError(resp[n].key)
            /\ ~resp[n].success

\* The calls are Puts of pairwise distinct keys.
DistinctPuts(calls) ==
    /\ \A i \in 1..Len(calls) : calls[i].op = "put"
    /\ \A i \in 1..Len(calls), j \in 1..Len(calls) :
            i # j => calls[i].key # calls[j].key

\* C20: when the callers of a node have Put pairwise distinct keys and all
\* calls have returned, GetAll holds every written key with the value
\* written for it and as many keys as were written.
C20_DisjointPutsAllKept ==
    \A n \in Nodes :
        (~WriteLocked(n) /\ DistinctPuts(returned[n])) =>
            /\ \A i \in 1..Len(returned[n]) :
                    /\ returned[n][i].key \in DOMAIN GetAll(n)
                    /\ GetAll(n)[returned[n][i].key] = returned[n][i].value
            /\ Cardinality(DOMAIN GetAll(n)) = Len(returned[n])

\* C20's case: two Puts of different keys have both returned (a handler that
\* arrives while the other holds kv.mu starts when the lock is free).
C20_Witness ==
    \E n \in Nodes :
        /\ ~WriteLocked(n)
        /\ Len(returned[n]) = 2
        /\ DistinctPuts(returned[n])
        /\ Cardinality(DOMAIN GetAll(n)) = 2

\* C21: Snapshot followed by Restore is a round trip: the snapshot holds
\* exactly the map the store holds when it is taken, and after Restore of
\* it the store holds exactly that map.
C21_SnapshotRestoreRoundTrip ==
    [][\A n \in Nodes :
        /\ (snapshots'[n].index # snapshots[n].index) =>
                snapshots'[n].data = store[n]
        /\ (~snapshots[n].restored /\ snapshots'[n].restored) =>
                store'[n] = snapshots[n].mem]_vars

\* Thread t of node n serves the command that the node's previous call, the
\* last one that returned, served.
RepeatsLastCall(n, t) ==
    /\ cur[n][t].op # "none"
    /\ returned[n] # <<>>
    /\ returned[n][Len(returned[n])] =
            Command(cur[n][t].op, cur[n][t].key, cur[n][t].value)

\* C22: applying the same command twice in succession leaves the map and the
\* bucket as applying it once does: no step of a Put(k, v) that follows a
\* Put(k, v), or of a Delete(k) that follows a Delete(k), changes either.
C22_SameCommandTwice ==
    [][\A n \in Nodes, t \in Threads :
        (RepeatsLastCall(n, t) /\ pc'[n][t] # pc[n][t]) =>
            store'[n] = store[n] /\ db'[n] = db[n]]_vars

\* C22's case: Put("a", "1") has returned twice in a row.
C22_Witness ==
    \E n \in Nodes :
        /\ ~WriteLocked(n)
        /\ returned[n] = <<Command("put", "a", "1"), Command("put", "a", "1")>>
        /\ store[n] = db[n]

\* C23: after Open has bootstrapped a fresh node, the node's configuration
\* holds exactly one voter, the node itself.
C23_BootstrapOneVoter ==
    \A n \in Nodes : config[n] = {n} /\ Cardinality(config[n]) = 1

\* C23's case: a node on its first run, bootstrapped by Open, is serving
\* calls.
C23_Witness ==
    \E n \in Nodes :
        /\ crashes = 0
        /\ status[n] = "serving"
        /\ returned[n] # <<>>
        /\ config[n] = {n}

\* Node n's process starts: main() runs Open.
Starts(n) == status[n] = "down" /\ status'[n] = "starting"

\* C24: a bootstrap attempted on a node that already holds consensus state is
\* reported to the caller as a configuration error and leaves the node's
\* configuration as it was.
C24_SecondBootstrapIsError ==
    [][\A n \in Nodes :
        (Starts(n) /\ config[n] # {}) =>
            /\ OpenError(config[n]) = BootstrapClusterError(config[n])
            /\ config'[n] = config[n]]_vars

\* A Join call on node l returns.
JoinReturns(l) == resp'[l].op = "join" /\ resp'[l] # resp[l]

\* C25: Join adds the peer as a voter only when called on the leader for a
\* peer that is not a member yet; on a node that is not the leader, or for a
\* peer that is a member already, Join returns an error and the
\* configuration is unchanged.
C25_JoinLeaderOnlyNewMember ==
    [][\A l \in Nodes :
        JoinReturns(l) =>
            /\ (config' # config) =>
                    /\ raftState[l] = "Leader"
                    /\ \E p \in Nodes \ config[l] : config'[l] = config[l] \cup {p}
            /\ (raftState[l] # "Leader") =>
                    resp'[l].err # ErrNil /\ config' = config
            /\ (raftState[l] = "Leader" /\ config' = config) =>
                    resp'[l].err # ErrNil]_vars

\* Node n takes a client request: a Put or Delete handler starts, or a Watch
\* registers.
Accepts(n) ==
    \/ \E t \in Threads : pc[n][t] = "idle" /\ pc'[n][t] # "idle"
    \/ \E w \in WatcherIds : wpc[w] = "none" /\ wpc'[w] # "none" /\ wnode'[w] = n

\* Node n's startup ends: its handlers take requests from now on.
StartsServing(n) == status[n] = "starting" /\ Listening(n)'

\* C26: a node serves no client request before its map is fully rehydrated:
\* no request is taken while the node starts, and serving starts only when
\* the startup scan has put every pair of the bucket into the map.
C26_ServesOnlyAfterRehydration ==
    [][\A n \in Nodes :
        /\ Accepts(n) => Listening(n)
        /\ StartsServing(n) =>
                \A k \in DOMAIN db[n] : k \in DOMAIN store[n] /\ store[n][k] = db[n][k]]_vars

\* C26's case: a node restarted over a bucket that holds a pair has scanned
\* it and is in its first request since.
C26_Witness ==
    \E n \in Nodes :
        /\ crashes = 1
        /\ status[n] = "serving"
        /\ pc[n][1] = "put_log"
        /\ DOMAIN db[n] # {}
        /\ \A k \in DOMAIN db[n] : Get(n, k) = db[n][k]

\* C27: every Put or Delete call eventually returns to its caller, whether
\* the node is leader or not and whether or not a majority can be reached
\* (the node itself keeps running).
C27_EveryCallReturns ==
    \A n \in Solo, t \in ClusterThreads :
        (pc[n][t] # "idle") ~> (pc[n][t] = "idle" /\ resp[n].op \in {"put", "del"})

\* C27's case: the leader of two voters whose peer is down, so that no
\* majority can be reached, has answered a call.
C27_Witness ==
    \E n \in Solo :
        /\ resp[n].op \in {"put", "del"}
        /\ resp[n].err = ErrLeadershipLost
        /\ Cardinality(config[n]) > 1
        /\ \A m \in config[n] \ {n} : ~Up(m)

\* raft invokes fsm.Apply on node n.
Applies(n) == lastApplied'[n] = lastApplied[n] + 1

\* C28: on every node, leader or follower, after fsm.Apply of the committed
\* command {put,k,v} the node's map and bucket map k to v (a WAL record was
\* appended, the watchers of k were notified); after {del,k} neither holds k.
C28_ApplyChangesTheNode ==
    [][\A n \in Nodes :
        Applies(n) =>
            LET c == rlog[n][lastApplied'[n]]
            IN  IF c.op = "put"
                THEN /\ c.key \in DOMAIN store'[n] /\ store'[n][c.key] = c.value
                     /\ c.key \in DOMAIN db'[n] /\ db'[n][c.key] = c.value
                     /\ \E i \in 1..Len(wal'[n]) :
                            wal'[n][i] = WalLog("Write", c.key, c.value)
                ELSE /\ c.key \notin DOMAIN store'[n]
                     /\ c.key \notin DOMAIN db'[n]]_vars

\* No Put or Delete is in progress on node n.
Quiet(n) == \A t \in Threads : pc[n][t] = "idle"

\* C29: whenever no Put or Delete is in progress on a running node, its map
\* and its bucket hold exactly the same pairs, also after a call whose
\* bucket write failed.
C29_MemoryEqualsBucket ==
    \A n \in Nodes : (Listening(n) /\ Quiet(n)) => store[n] = db[n]

\* The WAL of node n holds a Write record of the pair.
HasWalEntry(n, k, v) == \E i \in 1..Len(wal[n]) : wal[n][i] = WalLog("Write", k, v)

\* The map of node n shows what the call of thread t asks for.
InMemory(n, t) ==
    IF cur[n][t].op = "put"
    THEN cur[n][t].key \in DOMAIN store[n] /\ store[n][cur[n][t].key] = cur[n][t].value
    ELSE cur[n][t].key \notin DOMAIN store[n]

\* The bucket of node n shows what the call of thread t asks for, where the
\* bucket takes the key.
InBucket(n, t) ==
    IF cur[n][t].op = "put"
    THEN BucketPutError(cur[n][t].key) = ErrNil =>
            cur[n][t].key \in DOMAIN db[n] /\ db[n][cur[n][t].key] = cur[n][t].value
    ELSE cur[n][t].key \notin DOMAIN db[n]

\* The steps of thread t's call come in the order WAL append, map, bucket,
\* notification: each step finds the effects of the steps before it and
\* none of the steps after it.
InOrder(n, t) ==
    /\ (pc[n][t] \in {"put_log", "del_log"} /\ pc'[n][t] \in {"put_mem", "del_mem"}) =>
            /\ wal'[n] = Append(wal[n], InFlightRecord(n, t))
            /\ store' = store /\ db' = db /\ events' = events
    /\ (pc[n][t] \in {"put_mem", "del_mem"} /\ pc'[n][t] \in {"put_db", "del_db"}) =>
            /\ wal[n] # <<>> /\ wal[n][Len(wal[n])] = InFlightRecord(n, t)
            /\ InMemory(n, t)'
            /\ wal' = wal /\ db' = db /\ events' = events
    /\ (pc[n][t] \in {"put_db", "del_db"} /\ pc'[n][t] \in {"put_notify", "propose"}) =>
            /\ InMemory(n, t)
            /\ InBucket(n, t)'
            /\ wal' = wal /\ store' = store /\ events' = events
    /\ (pc[n][t] = "put_notify" /\ pc'[n][t] = "propose") =>
            /\ InMemory(n, t) /\ InBucket(n, t)
            /\ events' = Notify(n, cur[n][t].key, cur[n][t].value)
            /\ wal' = wal /\ store' = store /\ db' = db

\* Each pair of node n's bucket is in its map.
StoreInMemory(n) == \A k \in DOMAIN db[n] : k \in DOMAIN store[n] /\ store[n][k] = db[n][k]

\* Each pair of node n's map has its WAL record.
MemoryInWal(n) == \A k \in DOMAIN store[n] : HasWalEntry(n, k, store[n][k])

\* A call on node n has updated the map and not yet written the bucket.
BetweenMemoryAndStore(n) == \E t \in Threads : pc[n][t] \in {"put_db", "del_db"}

\* C30 as stated: within each Put and Delete the steps happen in the order
\* WAL append, map update, bucket write, (Put) notification; hence in every
\* state of a serving node each pair of the bucket is in the map and each
\* pair of the map has its WAL record.
C30_OrderKeepsStoreInMemory ==
    [][\A n \in Nodes :
        /\ \A t \in Threads : InOrder(n, t)
        /\ Listening(n)' => StoreInMemory(n)' /\ MemoryInWal(n)']_vars

\* C30 amended: the steps happen in that order; in every state of a serving
\* node each pair of the map has its WAL record, and each pair of the bucket
\* is in the map unless a call stands between its map update and its bucket
\* write.
C30_OrderKeepsStoreInMemoryBetweenCalls ==
    [][\A n \in Nodes :
        /\ \A t \in Threads : InOrder(n, t)
        /\ Listening(n)' => MemoryInWal(n)'
        /\ (Listening(n)' /\ ~BetweenMemoryAndStore(n)') => StoreInMemory(n)']_vars

\* C30's case: a Put has gone through its four steps, its pair is in the WAL,
\* the map and the bucket, and a watcher holds its notification.
C30_Witness ==
    \E n \in Nodes, t \in Threads, w \in WatcherIds :
        /\ pc[n][t] = "propose" /\ cur[n][t].op = "put"
        /\ HasWalEntry(n, cur[n][t].key, cur[n][t].value)
        /\ InMemory(n, t)
        /\ cur[n][t].key \in DOMAIN db[n]
        /\ events[w] # <<>> /\ events[w][Len(events[w])] = Sprintf(cur[n][t].key, cur[n][t].value)

\* The last WAL record of node n that names key k, or none.
LastRecordOf(n, k) ==
    LET I == {i \in 1..Len(wal[n]) : wal[n][i].Key = k}
    IN  IF I = {} THEN WalLog("None", k, "")
        ELSE wal[n][CHOOSE i \in I : \A j \in I : j <= i]

\* C31: mutations on one node are strictly serialized: the steps of two
\* concurrent Put/Delete calls never interleave, so once the calls on a key
\* are over the map, the bucket, the last WAL record of the key and the last
\* notification in each watcher's queue name the same value.
C31_StrictlySerialized ==
    \A n \in Nodes :
        /\ Cardinality({t \in Threads : pc[n][t] # "idle"}) <= 1
        /\ \A k \in Keys :
            (Listening(n) /\ Quiet(n) /\ LastRecordOf(n, k).Operation = "Write") =>
                /\ k \in DOMAIN store[n] /\ store[n][k] = LastRecordOf(n, k).Value
                /\ k \in DOMAIN db[n] /\ db[n][k] = LastRecordOf(n, k).Value
                /\ \A w \in Range(watchers[n][k]) :
                        events[w] # <<>> =>
                            events[w][Len(events[w])] = Sprintf(k, LastRecordOf(n, k).Value)

\* C32: WAL records round-trip: the line written by LogWrite(k, v) or
\* LogDelete(k) decodes into an entry with the same operation, key and value
\* (empty for Delete), for every key and value, also the empty string and
\* strings that hold newlines or quotes.
C32_WalRecordRoundTrip ==
    ndjson.at = "entry" => ndjson.err = ErrNil /\ ndjson.entry = ndjson.record

\* main() calls PutFromDb on node n.
PutsFromDb(n) ==
    status[n] = "starting" /\ status'[n] = "starting" /\ store'[n] # store[n]

\* C33: PutFromDb(k, v) changes only the map's entry for k: nothing is
\* appended to the WAL, nothing written to the bucket, nothing proposed to
\* raft, no watcher notified, and every other key stays as it is.
C33_PutFromDbOnlyMemory ==
    [][\A n \in Nodes :
        PutsFromDb(n) =>
            /\ \E k \in DOMAIN db[n] :
                /\ DOMAIN store'[n] = DOMAIN store[n] \cup {k}
                /\ store'[n][k] = db[n][k]
                /\ \A j \in DOMAIN store[n] \ {k} : store'[n][j] = store[n][j]
            /\ wal' = wal /\ db' = db /\ rlog' = rlog
            /\ events' = events /\ watchers' = watchers]_vars

\* C33's case: the scan has put every pair of a bucket of several pairs
\* into the map.
C33_Witness ==
    \E n \in Nodes :
        /\ status[n] = "starting"
        /\ Cardinality(DOMAIN store[n]) > 1
        /\ store[n] = db[n]

\* C34: on a store made by NewKVStore after Init(db) whose Open was never
\* called, Put and Delete complete normally (the process does not crash),
\* and Put leaves its key mapped to its value in the map and in the bucket.
C34_WorksWithoutOpen ==
    [][\A n \in Nodes, t \in Threads :
        (raftState[n] = "None" /\ pc[n][t] = "propose") =>
            /\ status'[n] # "down"
            /\ cur[n][t].op = "put" =>
                    /\ Get(n, cur[n][t].key) = cur[n][t].value
                    /\ cur[n][t].key \in DOMAIN db[n]
                    /\ db[n][cur[n][t].key] = cur[n][t].value]_vars

\* The call of thread t on node n is refused with NotLeader.
RefusedNotLeader(n, t) ==
    pc[n][t] = "propose" /\ pc'[n][t] = "return" /\ cur'[n][t].err = ErrNotLeader

\* C35: when a Put or Delete returns NotLeader the node's map, WAL and bucket
\* are what they were before the call: on a node that has not stopped, what
\* the calls that returned before it left (the map they replay to, one WAL
\* record each, the bucket's pairs among the map's).
C35_NotLeaderLeavesNoTrace ==
    [][\A n \in Nodes, t \in Threads :
        (RefusedNotLeader(n, t) /\ crashes = 0) =>
            /\ store'[n] = Replay(returned[n])
            /\ Len(wal'[n]) = Len(returned[n])
            /\ \A k \in DOMAIN db'[n] :
                    k \in DOMAIN Replay(returned[n]) /\ db'[n][k] = Replay(returned[n])[k]]_vars

\* The consumer of a map handed out by GetAll on node n is reading it.
ReadsMap(n) ==
    \E t \in Threads : pc[n][t] = "getall_marshal" /\ pc'[n][t] = "getall_marshal"

\* C36: the map GetAll hands out is never read by its consumer while a Put,
\* Delete or PutFromDb writes the node's map.
C36_NoWriteWhileMapIsRead ==
    [][\A n \in Nodes : (ReadsMap(n) /\ Up(n)') => store'[n] = store[n]]_vars

\* Watcher w has been returned by Watch and no Unwatch of it has begun.
Watching(w) == wpc[w] \in {"streaming", "streaming_gone", "disconnected"}

\* C37: under any interleaving of concurrent Watch and Unwatch calls no
\* registration is lost: every watcher that Watch has returned and that is
\* not yet unsubscribed is in its key's list and gets the next Put on its key
\* (its queue having room), and every unsubscribed watcher is in no list.
C37_NoRegistrationLost ==
    /\ [](\A w \in WatcherIds :
            /\ Watching(w) => w \in Range(watchers[wnode[w]][wkey[w]])
            /\ wpc[w] = "closed" =>
                    \A n \in Nodes, k \in Keys : w \notin Range(watchers[n][k]))
    /\ [][\A n \in Nodes, t \in Threads :
            Delivers(n, t) =>
                \A w \in WatcherIds :
                    (Watching(w) /\ wnode[w] = n /\ wkey[w] = cur[n][t].key
                        /\ Len(events[w]) < ChanCap) =>
                            events'[w] = Append(events[w],
                                                Sprintf(cur[n][t].key, cur[n][t].value))]_vars

\* C38: a watcher's queue is closed at most once, also when Unwatch is
\* invoked for the same watcher more than once at the same time: no call
\* reaches close(w.Events) on a queue that is closed.
C38_ClosedAtMostOnce ==
    \A w \in WatcherIds : ~ClosesTwice(w)

\* C39: in every reachable state each watcher in the registry has an open
\* queue, so a Put at its delivery step never sends to a closed queue, under
\* any interleaving of Put with Watch and Unwatch.
C39_RegisteredQueuesAreOpen ==
    \A n \in Nodes, k \in Keys : \A w \in Range(watchers[n][k]) : ~Closed(w)

\* C40: Open returns an error whenever one of its setup steps fails, and
\* whenever it returns without error the store's raft is initialized, so
\* that no later Put, Delete or Join uses an uninitialized one.
C40_OpenReportsFailedSetup ==
    \A n \in Nodes :
        resp[n].op = "open" =>
            /\ resp[n].failed # {} => resp[n].err \notin {ErrNil, "panic"}
            /\ resp[n].err = ErrNil => raftState[n] # "None"

====
